---- MODULE Spec2Model ----
(***************************************************************************)
(* Model of the lifecycle and flow-control core of the on-device AI        *)
(* runtime: LRUCache, BackpressureHandler, TokenBuffer, StreamController,  *)
(* StreamCancellation, streamWithTimeout, ErrorHandler.withRetry,          *)
(* ModelRegistry, the IDGAF facade and the operation closures of           *)
(* GGUFAdapter and TFLiteAdapter.                                          *)
(*                                                                         *)
(* Every component has its own variables, its own initial predicate and    *)
(* next-state relation and its own specification; an action leaves the     *)
(* variables of the other components untouched.                            *)
(***************************************************************************)
EXTENDS Integers, Sequences, FiniteSets, TLC

(***************************************************************************)
(* Bounds of the model.                                                    *)
(***************************************************************************)
CacheMaxSizeMB == 3
MaxTime == 1
MaxHits == 2
MaxPendingBound == 2
MaxAcquires == 4
MaxDebt == 1
MaxCapacity == 3
MaxAdds == 4
MaxRetriesBound == 3
MaxFailures == 3
MaxRegistrations == 3
MaxPushes == 3
MaxReads == 2
MaxCancellationCalls == 4
MaxItems == 3
MaxLoads == 2
MaxAdapterLoads == 2
MaxGenerators == 2
MaxSelCalls == 2
MaxUnloadCalls == 3
MaxN == 4
MaxTasks == 2
MaxRejections == 2
MaxUnloadCount == 2

(***************************************************************************)
(* State                                                                   *)
(***************************************************************************)
\* LRUCache
VARIABLES
    cache,        \* the Map key -> {model, entry}, as the sequence of its entries in insertion order
    currentSize,  \* LRUCache.currentSize
    maxSize,      \* LRUCache.maxSize
    now,          \* the wall clock read by new Date()
    cpc,          \* where the cache call in flight is suspended ("idle": none in flight)
    cframe,       \* the locals of the cache call in flight
    cret,         \* what the last finished cache call returned or threw
    inflight,     \* the adapter.unloadModel invocations not yet handed back to their caller: [id, why, done]
    evicted,      \* the keys the current (or, when idle, the last) call has evicted so far, in order
    evictedSizes  \* the sizes of the entries under those keys, in the same order

cacheVars == <<cache, currentSize, maxSize, now, cpc, cframe, cret, inflight, evicted, evictedSizes>>

\* LRUCache: what clear, prune and getStats add to the above
VARIABLES
    cstats,     \* what the last getStats call returned, if neither clear nor prune was
                \* called since (tag "none" otherwise)
    clast,      \* the last finished clear or prune call, if getStats was not called since:
                \* which call, what it returned (prune), how many entries the cache held
                \* when it was called and how many unloads rejected (clear)
    cbefore,    \* while a clear or prune call is in flight: the Map and currentSize at the call
    cprune,     \* while a prune call is in flight: its locals keysToDelete, the position of
                \* its second loop, maxAge and now
    cunloads,   \* while a clear or prune call is in flight: the ids of the models whose
                \* adapter unload the call has invoked, in order
    crejected   \* while a clear call is in flight: which of its unload promises rejected

cacheAdminVars == <<cstats, clast, cbefore, cprune, cunloads, crejected>>

\* LRUCache with several calls in flight and with adapter unloads that reject
VARIABLES
    concCache,  \* the Map key -> {model, entry}, as the sequence of its entries in insertion order
    concSize,   \* LRUCache.currentSize
    tasks,      \* the set, delete, prune and clear calls suspended at an await, in call
                \* order, each with its locals
    concRet,    \* the call that returned or threw last, or the call made last when it is
                \* still in flight: which call, how it ended, the model returned (get)
    unloadLog,  \* how often the cache has invoked the adapter's unloadModel for each
                \* LoadedModel instance (counted up to MaxUnloadCount)
    recency,    \* the keys present, least recently accessed first, each with its most
                \* recent access: "insert" (set of a new key), "overwrite" (set of a key
                \* present) or "get"
    failures    \* how many adapter unloads have rejected

concVars == <<concCache, concSize, tasks, concRet, unloadLog, recency, failures>>

\* BackpressureHandler
VARIABLES
    pending,           \* BackpressureHandler.pending
    maxPending,        \* BackpressureHandler.maxPending
    waitingResolvers,  \* the resolvers of the suspended acquire() calls, oldest first; a
                       \* resolver is named by the number of the acquire() call that made it
    acquires,          \* how many acquire() calls have been made
    resolved,          \* the acquire() calls whose promise has resolved
    resumed,           \* the suspended acquire() calls resolved by release(), in the order resolved
    bpOp               \* the call made last: "acquire", "release" or "none"

bpVars == <<pending, maxPending, waitingResolvers, acquires, resolved, resumed, bpOp>>

\* TokenBuffer
VARIABLES
    buffer,     \* TokenBuffer.buffer
    tbMaxSize,  \* TokenBuffer.maxSize
    added       \* every token passed to add() since construction or the last clear(), in order

tbVars == <<buffer, tbMaxSize, added>>

\* TokenBuffer.getLastN
VARIABLES
    tbLastN  \* the last getLastN call: its argument and what it returned

tbQueryVars == <<tbLastN>>

\* ErrorHandler.withRetry
VARIABLES
    rpc,        \* where withRetry is: "idle", "calling" (awaiting operation()), "sleeping"
                \* (awaiting the backoff timer) or "done"
    rargs,      \* the arguments of withRetry: maxRetries, backoffMs
    plan,       \* the operation: the number of its calls that throw before one succeeds
                \* (Forever: all of them) and the error those calls throw
    attempt,    \* the loop variable of withRetry
    calls,      \* how many times operation() has been called
    lastError,  \* the local lastError
    delay,      \* the backoff delay being waited for
    rresult     \* what withRetry returned or threw

retryVars == <<rpc, rargs, plan, attempt, calls, lastError, delay, rresult>>

\* ModelRegistry
VARIABLES
    adapters,    \* ModelRegistry.adapters: the Map format -> adapter, as the sequence of its
                 \* values in insertion order
    registered,  \* the ids of the adapters passed to registerAdapter, in call order
    selArgs,     \* the arguments of the selectBestAdapter call, when that was the last call
    selected,    \* what the selectBestAdapter call returned, when that was the last call
                 \* (tag "none" otherwise)
    selCalls     \* how many selectBestAdapter calls in a row were made with selArgs
                 \* (counted up to MaxSelCalls)

regVars == <<adapters, registered, selArgs, selected, selCalls>>

\* StreamController and the ReadableStream it owns
VARIABLES
    closed,          \* StreamController._closed
    controller,      \* StreamController._controller is set
    streamState,     \* the stream's [[state]]: "readable", "closed" or "errored"
    closeRequested,  \* the default controller's [[closeRequested]]
    queue,           \* the default controller's [[queue]]
    readRequests,    \* how many read() requests of the consumer are pending
    received,        \* the chunks the consumer has read, in order
    open,            \* no close(), no error() and no cancel by the consumer has happened yet
    pushes,          \* how many push() calls have been made
    scRet,           \* what the last call on the controller returned: "true", "false",
                     \* "void", "throw", or "none" before any call
    scOp,            \* the call made last on the controller or on its stream: "push",
                     \* "close", "error", "cancel", "read", or "none" before any call
    accepted,        \* the values for which push returned true, in push order
    consumerCancelled  \* the consumer has cancelled the stream

scVars == <<closed, controller, streamState, closeRequested, queue, readRequests,
            received, open, pushes, scRet, scOp, accepted, consumerCancelled>>

\* StreamCancellation
VARIABLES
    cancelled,          \* StreamCancellation._cancelled
    onCancelCallbacks,  \* StreamCancellation._onCancel
    cnRegistered,       \* every callback passed to onCancel so far, with the number of the
                        \* cancel()/onCancel() call of the program during which it was passed;
                        \* a callback is named by its position here
    cnInvocations,      \* the invocations of callbacks so far, in order: the callback and the
                        \* number of the call of the program during which it was invoked
    cnCalls,            \* how many cancel() and onCancel() calls the program has made
    firstCancel,        \* the number of the first cancel() call (0: none yet)
    cnOp,               \* the call made last: "cancel", "onCancel" or "none"
    cnRet               \* how the last call ended: "void", "throw", or "none" before any call

cnVars == <<cancelled, onCancelCallbacks, cnRegistered, cnInvocations, cnCalls, firstCancel,
            cnOp, cnRet>>

\* streamWithTimeout and the async generator it wraps
VARIABLES
    wpc,              \* where the wrapper is: "suspended" (at its start or at its yield),
                      \* "racing" (awaiting Promise.race), "returning" (in finally, awaiting
                      \* generator.return()) or "done"
    wCause,           \* why the wrapper entered finally: "end", "timeout", "error",
                      \* "return" (of the consumer), or "none"
    timerPending,     \* the setTimeout of the current round is armed and has not fired
    genState,         \* the wrapped generator: "suspended", "running" (a next() step is in
                      \* progress) or "completed"
    produced,         \* the items the wrapped generator has yielded, in order
    wReceived,        \* the items the consumer has got from the wrapper, in order
    wResult,          \* how the consumer's last call on the wrapper settled: "value", "done",
                      \* "timeout", "error", or "none" (not settled, or no call yet)
    returnInvoked,    \* generator.return() has been called
    timedOut          \* a timer has fired while the step of its round was still in progress

swtVars == <<wpc, wCause, timerPending, genState, produced, wReceived, wResult,
             returnInvoked, timedOut>>

\* streamWithTimeout: the catch around generator.return()
VARIABLES
    returnRejected  \* the promise of generator.return() has rejected

swtCleanupVars == <<returnRejected>>

\* IDGAF (the facade) and the loaded models of its ModelRegistry
VARIABLES
    loadedModels,  \* ModelRegistry.loadedModels: the Map id -> LoadedModel, as the sequence
                   \* of its values in insertion order
    loads,         \* how many models have been loaded so far; the model loaded as number n
                   \* has id n
    fcall          \* the modality call made last (LoadModel and UnloadModel forget
                   \* it): the operation, how it ended, the error message, and the id of
                   \* the model whose operation closure was invoked (0: none was)

facadeVars == <<loadedModels, loads, fcall>>

\* GGUFAdapter and TFLiteAdapter, and the LoadedModels they have returned
VARIABLES
    loadedContexts,      \* GGUFAdapter.loadedContexts: the ids that have a context
    tfliteLoadedModels,  \* TFLiteAdapter.loadedModels: the ids that have an interpreter
    issued,              \* the LoadedModel objects the adapters have returned: id and
                         \* format; the caller keeps them, and their closures, after unload
    unloadedIds,         \* the ids for which the owning adapter's unloadModel has completed
    generators,          \* the generators returned by generate and chat closures whose
                         \* body has not started yet: id and operation
    closureCall          \* the closure body that ran last: id, operation, whether
                         \* unloadModel(id) had completed before, and how the body ended

adapterVars == <<loadedContexts, tfliteLoadedModels, issued, unloadedIds, generators, closureCall>>

\* IDGAF.performanceMetrics and IDGAF.loadModel
VARIABLES
    performanceMetrics,  \* the Map id -> PerformanceMetrics, as a function on the ids it holds
    lcall                \* the loadModel call made last: how it ended, the id of the model
                         \* it returned (0: none) and the error it threw

metricsVars == <<performanceMetrics, lcall>>

\* ModelRegistry.unloadModel
VARIABLES
    rcalls  \* the unloadModel calls made on the registry, in call order: the id, whether
            \* the id was tracked at the call, how often the call has invoked the
            \* adapter's unloadModel, and where the call stands

ruVars == <<rcalls>>

vars == <<cacheVars, bpVars, tbVars, retryVars, regVars, scVars, cnVars, swtVars, facadeVars, adapterVars, cacheAdminVars, ruVars, tbQueryVars, metricsVars, concVars, swtCleanupVars>>

\* what the calls on one component leave alone: the other components
notCache == <<bpVars, tbVars, retryVars, regVars, scVars, cnVars, swtVars, facadeVars, adapterVars, cacheAdminVars, ruVars, tbQueryVars, metricsVars, concVars, swtCleanupVars>>
notBP == <<cacheVars, tbVars, retryVars, regVars, scVars, cnVars, swtVars, facadeVars, adapterVars, cacheAdminVars, ruVars, tbQueryVars, metricsVars, concVars, swtCleanupVars>>
notTB == <<cacheVars, bpVars, retryVars, regVars, scVars, cnVars, swtVars, facadeVars, adapterVars, cacheAdminVars, ruVars, tbQueryVars, metricsVars, concVars, swtCleanupVars>>
notRetry == <<cacheVars, bpVars, tbVars, regVars, scVars, cnVars, swtVars, facadeVars, adapterVars, cacheAdminVars, ruVars, tbQueryVars, metricsVars, concVars, swtCleanupVars>>
notRegistry == <<cacheVars, bpVars, tbVars, retryVars, scVars, cnVars, swtVars, facadeVars, adapterVars, cacheAdminVars, ruVars, tbQueryVars, metricsVars, concVars, swtCleanupVars>>
notSC == <<cacheVars, bpVars, tbVars, retryVars, regVars, cnVars, swtVars, facadeVars, adapterVars, cacheAdminVars, ruVars, tbQueryVars, metricsVars, concVars, swtCleanupVars>>
notCancellation == <<cacheVars, bpVars, tbVars, retryVars, regVars, scVars, swtVars, facadeVars, adapterVars, cacheAdminVars, ruVars, tbQueryVars, metricsVars, concVars, swtCleanupVars>>
notTimeout == <<cacheVars, bpVars, tbVars, retryVars, regVars, scVars, cnVars, facadeVars, adapterVars, cacheAdminVars, ruVars, tbQueryVars, metricsVars, concVars, swtCleanupVars>>
notFacade == <<cacheVars, bpVars, tbVars, retryVars, regVars, scVars, cnVars, swtVars, adapterVars, cacheAdminVars, ruVars, tbQueryVars, metricsVars, concVars, swtCleanupVars>>
notCacheAdmin == <<bpVars, tbVars, retryVars, regVars, scVars, cnVars, swtVars, facadeVars, adapterVars, ruVars, tbQueryVars, metricsVars, concVars, swtCleanupVars>>
notRegistryUnload == <<cacheVars, bpVars, tbVars, retryVars, regVars, scVars, cnVars, swtVars, adapterVars, cacheAdminVars, tbQueryVars, metricsVars, concVars, swtCleanupVars>>
notTBQuery == <<cacheVars, bpVars, retryVars, regVars, scVars, cnVars, swtVars, facadeVars, adapterVars, cacheAdminVars, ruVars, metricsVars, concVars, swtCleanupVars>>
notMetrics == <<cacheVars, bpVars, tbVars, retryVars, regVars, scVars, cnVars, swtVars, adapterVars, cacheAdminVars, ruVars, tbQueryVars, concVars, swtCleanupVars>>
notConc == <<cacheVars, facadeVars, bpVars, tbVars, retryVars, regVars, scVars, cnVars, swtVars, adapterVars, cacheAdminVars, ruVars, tbQueryVars, metricsVars, swtCleanupVars>>
notTimeoutCleanup == <<cacheVars, bpVars, tbVars, retryVars, regVars, scVars, cnVars, facadeVars, adapterVars, cacheAdminVars, ruVars, tbQueryVars, metricsVars, concVars>>
notAdapters == <<cacheVars, bpVars, tbVars, retryVars, regVars, scVars, cnVars, swtVars, facadeVars, cacheAdminVars, ruVars, tbQueryVars, metricsVars, concVars, swtCleanupVars>>

(***************************************************************************)
(* LRUCache                                                                *)
(***************************************************************************)
\* the cache keys the caller uses, and the ids of the LoadedModels it stores
Keys == {"A", "B", "C", "D"}
Models == {1, 2, 3}

BytesPerMB == 1024 * 1024

\* model.info.size of the LoadedModel with id m: a model of one megabyte, one of two
\* megabytes, and one larger than the whole cache.
SizeOf(m) ==
    IF m = 3 THEN (CacheMaxSizeMB + 1) * BytesPerMB
    ELSE IF m = 2 THEN 2 * BytesPerMB
    ELSE BytesPerMB

\* what a cache call hands back: nothing yet, a plain return, null, a model, or the
\* capacity error thrown by set
Ret(tag) == [tag |-> tag, model |-> 0]
RetModel(m) == [tag |-> "model", model |-> m]

NoFrame == [key |-> "", model |-> 0, victim |-> "", lastAccessed |-> 0]

RECURSIVE SumSizes(_)
SumSizes(c) == IF c = <<>> THEN 0 ELSE Head(c).size + SumSizes(Tail(c))

KeysOf(c) == {c[i].key : i \in 1..Len(c)}

\* Map.has
MapHas(c, k) == k \in KeysOf(c)

\* Map.get (only used when the key is present)
MapGet(c, k) == c[CHOOSE i \in 1..Len(c) : c[i].key = k]

\* Map.delete: the other entries keep their relative order
MapDelete(c, k) == SelectSeq(c, LAMBDA e : e.key # k)

\* Map.set: an existing key keeps its position, a new key goes last
MapSet(c, k, e) ==
    IF MapHas(c, k)
    THEN [i \in 1..Len(c) |-> IF c[i].key = k THEN e ELSE c[i]]
    ELSE Append(c, e)

\* (the comparison of evictLRU turned round: the first entry with the largest lastAccessed)
NewestIndex(c) ==
    CHOOSE i \in 1..Len(c) :
        /\ \A j \in 1..Len(c) : c[j].lastAccessed <= c[i].lastAccessed
        /\ \A j \in 1..(i - 1) : c[j].lastAccessed < c[i].lastAccessed

\* (the comparison of evictLRU with <=: the last entry with the smallest lastAccessed)
OldestIndexLastFound(c) ==
    CHOOSE i \in 1..Len(c) :
        /\ \A j \in 1..Len(c) : c[i].lastAccessed <= c[j].lastAccessed
        /\ \A j \in (i + 1)..Len(c) : c[j].lastAccessed > c[i].lastAccessed

\* the loop of evictLRU: the first entry, in iteration order, with the smallest lastAccessed
OldestIndex(c) ==
    CHOOSE i \in 1..Len(c) :
        /\ \A j \in 1..Len(c) : c[i].lastAccessed <= c[j].lastAccessed
        /\ \A j \in 1..(i - 1) : c[j].lastAccessed > c[i].lastAccessed

\* the condition of the while loop of set
NeedEvictIgnoringIncoming(cs, modelSize, n) == cs > maxSize /\ n > 0

NeedEvict(cs, modelSize, n) == cs + modelSize > maxSize /\ n > 0

\* (a set() that never refuses a model)
ExceedsCapacityNever(modelSize) == FALSE

\* the test set() makes after its while loop
ExceedsCapacity(modelSize) == modelSize > maxSize

\* (a set() that does not subtract the size of the entry it replaces)
ReplacedSizeForgotten(c, k) == 0

\* what set() subtracts from currentSize for the entry it replaces
ReplacedSize(c, k) == MapGet(c, k).size

\* the Map while delete() awaits the adapter's unload of key k: the entry is still there
MapWhileUnloadingEager(c, k) == MapDelete(c, k)

MapWhileUnloading(c, k) == c

\* the CacheEntry set() builds. accessedAt and gets are not fields of the program:
\* accessedAt records the clock reading of the entry's most recent access (insertion by
\* set, hit by get), gets the number of get calls that found the entry.
NewEntry(k, m, t) ==
    [key |-> k, model |-> m, size |-> SizeOf(m), lastAccessed |-> t, hitCount |-> 1,
     accessedAt |-> t, gets |-> 0]

\* what get() does to the entry it finds: lastAccessed refreshed, hitCount incremented
HitEntry(e) == [e EXCEPT !.lastAccessed = now, !.hitCount = e.hitCount + 1]

NoStats == [tag |-> "none", totalSize |-> 0, entryCount |-> 0, hitRate |-> 0]
NoLast == [call |-> "none", returned |-> 0, entries |-> 0, rejected |-> 0]
NoBefore == [map |-> <<>>, size |-> 0]
NoPrune == [keysToDelete |-> <<>>, index |-> 0, maxAge |-> 0, at |-> 0]

\* adapter.unloadModel(id) is invoked
UnloadCall(id, why) == [id |-> id, why |-> why, done |-> FALSE]

CacheInit ==
    /\ cache = <<>>
    /\ currentSize = 0
    /\ maxSize = CacheMaxSizeMB * BytesPerMB
    /\ now = 0
    /\ cpc = "idle"
    /\ cframe = NoFrame
    /\ cret = Ret("none")
    /\ inflight = <<>>
    /\ evicted = <<>>
    /\ evictedSizes = <<>>
    /\ cstats = NoStats
    /\ clast = NoLast
    /\ cbefore = NoBefore
    /\ cprune = NoPrune
    /\ cunloads = <<>>
    /\ crejected = {}

\* the clock advances
Tick ==
    /\ now < MaxTime
    /\ now' = now + 1
    /\ UNCHANGED <<cache, currentSize, maxSize, cpc, cframe, cret, inflight, evicted, evictedSizes>>
    /\ UNCHANGED notCache

\* the adapter finishes an unload: the promise the cache awaits resolves
AdapterUnloadDone ==
    /\ \E i \in 1..Len(inflight) :
        /\ ~inflight[i].done
        /\ inflight' = [inflight EXCEPT ![i].done = TRUE]
    /\ UNCHANGED <<cache, currentSize, maxSize, now, cpc, cframe, cret, evicted, evictedSizes>>
    /\ UNCHANGED notCache

\* get(key): no suspension point, the whole body runs at once
CacheGet(k) ==
    /\ cpc = "idle"
    /\ IF ~MapHas(cache, k)
       THEN /\ cret' = Ret("null")
            /\ UNCHANGED cache
       ELSE LET cached == MapGet(cache, k) IN
            /\ cached.hitCount < MaxHits
            /\ cache' = MapSet(MapDelete(cache, k), k,
                               [HitEntry(cached) EXCEPT !.accessedAt = now,
                                                          !.gets = cached.gets + 1])
            /\ cret' = RetModel(cached.model)
    /\ evicted' = <<>>
    /\ evictedSizes' = <<>>
    /\ UNCHANGED <<currentSize, maxSize, now, cpc, cframe, inflight>>
    /\ UNCHANGED notCache

\* set(key, model) from the head of its while loop, with Map c and size cs
SetFrom(c, cs, k, m) ==
    IF NeedEvict(cs, SizeOf(m), Len(c))
    THEN \* evictLRU -> delete(oldestKey), up to the await of the adapter's unload
         LET v == c[OldestIndex(c)] IN
         /\ cache' = MapWhileUnloading(c, v.key)
         /\ currentSize' = cs - v.size
         /\ inflight' = <<UnloadCall(v.model, "evict")>>
         /\ cpc' = "set_evict"
         /\ cframe' = [key |-> k, model |-> m, victim |-> v.key, lastAccessed |-> 0]
         /\ cret' = Ret("pending")
    ELSE IF ExceedsCapacity(SizeOf(m))
    THEN \* throw new Error(`Model size ... exceeds cache capacity ...`)
         /\ cache' = c
         /\ currentSize' = cs
         /\ inflight' = <<>>
         /\ cpc' = "idle"
         /\ cframe' = NoFrame
         /\ cret' = Ret("capacity_exceeded")
    ELSE IF MapHas(c, k)
    THEN \* the entry is built, then the existing entry's model is unloaded
         /\ cache' = c
         /\ currentSize' = cs - ReplacedSize(c, k)
         /\ inflight' = <<UnloadCall(MapGet(c, k).model, "replace")>>
         /\ cpc' = "set_replace"
         /\ cframe' = [key |-> k, model |-> m, victim |-> "", lastAccessed |-> now]
         /\ cret' = Ret("pending")
    ELSE /\ cache' = MapSet(c, k, NewEntry(k, m, now))
         /\ currentSize' = cs + SizeOf(m)
         /\ inflight' = <<>>
         /\ cpc' = "idle"
         /\ cframe' = NoFrame
         /\ cret' = Ret("ok")

\* set(key, model) is called
CacheSet(k, m) ==
    /\ cpc = "idle"
    /\ SetFrom(cache, currentSize, k, m)
    /\ evicted' = <<>>
    /\ evictedSizes' = <<>>
    /\ UNCHANGED <<maxSize, now>>
    /\ UNCHANGED notCache

\* the unload awaited by the delete() inside evictLRU has completed: delete removes
\* the entry and returns to evictLRU, which returns to set
SetEvictResume ==
    /\ cpc = "set_evict"
    /\ inflight # <<>> /\ inflight[1].done
    /\ cache' = MapDelete(cache, cframe.victim)
    /\ inflight' = <<>>
    /\ evicted' = Append(evicted, cframe.victim)
    /\ evictedSizes' = Append(evictedSizes, MapGet(cache, cframe.victim).size)
    /\ cpc' = "set_loop"
    /\ UNCHANGED <<currentSize, maxSize, now, cframe, cret>>
    /\ UNCHANGED notCache

\* set, resumed after an eviction, goes round its while loop again
SetLoop ==
    /\ cpc = "set_loop"
    /\ SetFrom(cache, currentSize, cframe.key, cframe.model)
    /\ UNCHANGED <<maxSize, now, evicted, evictedSizes>>
    /\ UNCHANGED notCache

\* the unload of the entry being replaced has completed: the new entry is installed
SetReplaceResume ==
    /\ cpc = "set_replace"
    /\ inflight # <<>> /\ inflight[1].done
    /\ cache' = MapSet(cache, cframe.key,
                       NewEntry(cframe.key, cframe.model, cframe.lastAccessed))
    /\ currentSize' = currentSize + SizeOf(cframe.model)
    /\ inflight' = <<>>
    /\ cpc' = "idle"
    /\ cframe' = NoFrame
    /\ cret' = Ret("ok")
    /\ UNCHANGED <<maxSize, now, evicted, evictedSizes>>
    /\ UNCHANGED notCache

\* delete(key) is called
CacheDelete(k) ==
    /\ cpc = "idle"
    /\ IF MapHas(cache, k)
       THEN /\ cache' = MapWhileUnloading(cache, k)
            /\ currentSize' = currentSize - MapGet(cache, k).size
            /\ inflight' = <<UnloadCall(MapGet(cache, k).model, "delete")>>
            /\ cpc' = "delete"
            /\ cframe' = [NoFrame EXCEPT !.victim = k]
            /\ cret' = Ret("pending")
       ELSE /\ cret' = Ret("ok")
            /\ UNCHANGED <<cache, currentSize, cpc, cframe, inflight>>
    /\ evicted' = <<>>
    /\ evictedSizes' = <<>>
    /\ UNCHANGED <<maxSize, now>>
    /\ UNCHANGED notCache

\* the unload awaited by delete() has completed: the entry is removed
DeleteResume ==
    /\ cpc = "delete"
    /\ inflight # <<>> /\ inflight[1].done
    /\ cache' = MapDelete(cache, cframe.victim)
    /\ inflight' = <<>>
    /\ cpc' = "idle"
    /\ cframe' = NoFrame
    /\ cret' = Ret("ok")
    /\ UNCHANGED <<currentSize, maxSize, now, evicted, evictedSizes>>
    /\ UNCHANGED notCache

NextCache ==
    \/ Tick
    \/ AdapterUnloadDone
    \/ \E k \in Keys : CacheGet(k)
    \/ \E k \in Keys, m \in Models : CacheSet(k, m)
    \/ SetEvictResume
    \/ SetLoop
    \/ SetReplaceResume
    \/ \E k \in Keys : CacheDelete(k)
    \/ DeleteResume

(***************************************************************************)
(* LRUCache: getStats, clear and prune                                     *)
(***************************************************************************)
\* the smaller sets of keys and models the calls below are mixed with
AdminKeys == {"A", "B"}
AdminModels == {1, 2}

\* (a sum of the hits made by get only)
RECURSIVE TotalHitsOfGets(_)
TotalHitsOfGets(c) == IF c = <<>> THEN 0 ELSE Head(c).gets + TotalHitsOfGets(Tail(c))

\* Array.from(this.cache.values()).reduce((sum, cached) => sum + cached.entry.hitCount, 0)
RECURSIVE TotalHits(_)
TotalHits(c) == IF c = <<>> THEN 0 ELSE Head(c).hitCount + TotalHits(Tail(c))

\* totalAccesses > 0 ? totalHits / totalAccesses : 0, where totalAccesses = totalHits
HitRate(c) ==
    LET totalHits == TotalHits(c)
        totalAccesses == totalHits
    IN IF totalAccesses > 0 THEN totalHits \div totalAccesses ELSE 0

\* getStats(): no suspension point, nothing is written
CacheGetStats ==
    /\ cpc = "idle"
    /\ cstats' = [tag |-> "stats", totalSize |-> currentSize, entryCount |-> Len(cache),
                  hitRate |-> HitRate(cache)]
    /\ clast' = NoLast
    /\ UNCHANGED <<cbefore, cprune, cunloads, crejected>>
    /\ UNCHANGED cacheVars
    /\ UNCHANGED notCacheAdmin

\* (a clear that waits with Promise.all: the first rejection is thrown)
ClearOutcomeAll(rejected) == IF rejected = {} THEN "ok" ELSE "unload_rejected"

\* await Promise.allSettled(promises): never rejects
ClearOutcome(rejected) == "ok"

\* (a clear that leaves currentSize as it is)
SizeAfterClearKept(cs) == cs

\* this.currentSize = 0
SizeAfterClear(cs) == 0

\* clear() is called: the adapter's unloadModel is invoked for every entry, then the
\* call awaits Promise.allSettled
CacheClear ==
    /\ cpc = "idle"
    /\ inflight' = [i \in 1..Len(cache) |-> UnloadCall(cache[i].model, "clear")]
    /\ cunloads' = [i \in 1..Len(cache) |-> cache[i].model]
    /\ cbefore' = [map |-> cache, size |-> currentSize]
    /\ crejected' = {}
    /\ cpc' = "clear"
    /\ cret' = Ret("pending")
    /\ cstats' = NoStats
    /\ clast' = NoLast
    /\ evicted' = <<>>
    /\ evictedSizes' = <<>>
    /\ UNCHANGED <<cache, currentSize, maxSize, now, cframe, cprune>>
    /\ UNCHANGED notCacheAdmin

\* the adapter's unload of one entry rejects while clear waits
AdapterUnloadRejects ==
    /\ cpc = "clear"
    /\ \E i \in 1..Len(inflight) :
        /\ ~inflight[i].done
        /\ inflight' = [inflight EXCEPT ![i].done = TRUE]
        /\ crejected' = crejected \cup {i}
    /\ UNCHANGED <<cache, currentSize, maxSize, now, cpc, cframe, cret, evicted, evictedSizes>>
    /\ UNCHANGED <<cstats, clast, cbefore, cprune, cunloads>>
    /\ UNCHANGED notCacheAdmin

\* every unload promise of clear has settled: the Map is emptied and currentSize reset
ClearResume ==
    /\ cpc = "clear"
    /\ \A i \in 1..Len(inflight) : inflight[i].done
    /\ IF ClearOutcome(crejected) = "ok"
       THEN /\ cache' = <<>>
            /\ currentSize' = SizeAfterClear(currentSize)
            /\ cret' = Ret("ok")
       ELSE /\ cret' = Ret("unload_rejected")
            /\ UNCHANGED <<cache, currentSize>>
    /\ clast' = [call |-> "clear", returned |-> 0, entries |-> Len(cbefore.map),
                 rejected |-> Cardinality(crejected)]
    /\ inflight' = <<>>
    /\ cpc' = "idle"
    /\ cbefore' = NoBefore
    /\ cunloads' = <<>>
    /\ crejected' = {}
    /\ UNCHANGED <<maxSize, now, cframe, evicted, evictedSizes, cstats, cprune>>
    /\ UNCHANGED notCacheAdmin

\* the maxAge arguments of prune
MaxAges == 0..MaxTime

\* (age >= maxAge)
ExpiredInclusive(e, at, maxAge) == at - e.lastAccessed >= maxAge

\* age > maxAge, with age = now.getTime() - cached.entry.lastAccessed.getTime()
Expired(e, at, maxAge) == at - e.lastAccessed > maxAge

\* the first loop of prune: the keys of the expired entries, in iteration order
KeysToDelete(c, at, maxAge) ==
    LET expired == SelectSeq(c, LAMBDA e : Expired(e, at, maxAge))
    IN [i \in 1..Len(expired) |-> expired[i].key]

\* the second loop of prune at position index, with Map c and size cs: delete(key) up to
\* the await of the adapter's unload, or the return of keysToDelete.length
PruneFrom(c, cs, frame, before, unloads) ==
    IF frame.index > Len(frame.keysToDelete)
    THEN /\ cache' = c
         /\ currentSize' = cs
         /\ inflight' = <<>>
         /\ cpc' = "idle"
         /\ cframe' = NoFrame
         /\ cret' = Ret("ok")
         /\ clast' = [call |-> "prune", returned |-> Len(frame.keysToDelete),
                      entries |-> Len(before.map), rejected |-> 0]
         /\ cprune' = NoPrune
         /\ cbefore' = NoBefore
         /\ cunloads' = <<>>
    ELSE LET k == frame.keysToDelete[frame.index] IN
         /\ cache' = MapWhileUnloading(c, k)
         /\ currentSize' = cs - MapGet(c, k).size
         /\ inflight' = <<UnloadCall(MapGet(c, k).model, "prune")>>
         /\ cpc' = "prune"
         /\ cframe' = [NoFrame EXCEPT !.victim = k]
         /\ cret' = Ret("pending")
         /\ clast' = NoLast
         /\ cprune' = frame
         /\ cbefore' = before
         /\ cunloads' = Append(unloads, MapGet(c, k).model)

\* prune(maxAge) is called
CachePrune(maxAge) ==
    /\ cpc = "idle"
    /\ PruneFrom(cache, currentSize,
                 [keysToDelete |-> KeysToDelete(cache, now, maxAge), index |-> 1,
                  maxAge |-> maxAge, at |-> now],
                 [map |-> cache, size |-> currentSize], <<>>)
    /\ cstats' = NoStats
    /\ crejected' = {}
    /\ evicted' = <<>>
    /\ evictedSizes' = <<>>
    /\ UNCHANGED <<maxSize, now>>
    /\ UNCHANGED notCacheAdmin

\* the unload awaited by the delete() inside prune has completed: delete removes the
\* entry and the loop of prune goes on
PruneResume ==
    /\ cpc = "prune"
    /\ inflight # <<>> /\ inflight[1].done
    /\ PruneFrom(MapDelete(cache, cframe.victim), currentSize,
                 [cprune EXCEPT !.index = cprune.index + 1], cbefore, cunloads)
    /\ UNCHANGED <<maxSize, now, evicted, evictedSizes, cstats, crejected>>
    /\ UNCHANGED notCacheAdmin

NextCacheAdmin ==
    \/ Tick
    \/ AdapterUnloadDone
    \/ \E k \in AdminKeys : CacheGet(k)
    \/ \E k \in AdminKeys, m \in AdminModels : CacheSet(k, m)
    \/ SetEvictResume
    \/ SetLoop
    \/ SetReplaceResume
    \/ \E k \in AdminKeys : CacheDelete(k)
    \/ DeleteResume
    \/ CacheGetStats
    \/ CacheClear
    \/ AdapterUnloadRejects
    \/ ClearResume
    \/ \E maxAge \in MaxAges : CachePrune(maxAge)
    \/ PruneResume

(***************************************************************************)
(* LRUCache: calls that overlap and adapter unloads that reject            *)
(*                                                                         *)
(* Every call runs up to its next await in one step.  A caller is          *)
(* "sequential" when it awaits each call before it makes the next,         *)
(* "failing" when it does so and the adapter's unloads may reject, and     *)
(* "overlapping" when it starts calls without awaiting the ones in flight. *)
(***************************************************************************)
ConcKeys == {"A", "B"}

\* the LoadedModel instances the caller has: 1 and 4 of one megabyte, 2 of two
ConcModels == {1, 2, 4}

NoTask ==
    [op |-> "none", key |-> "", model |-> 0, pc |-> "", victim |-> "", lastAccessed |-> 0,
     keysToDelete |-> <<>>, index |-> 0]

NoConcRet == [op |-> "none", tag |-> "none", model |-> 0]

\* what a call has done when it reaches an await or its end: the Map, currentSize, its
\* locals, the model whose unload it awaits (0: the call has ended), how it ended, and
\* the key whose entry it has installed, if any
Reached(c, cs, frame, unload, tag, touched) ==
    [c |-> c, cs |-> cs, frame |-> frame, unload |-> unload, tag |-> tag, touched |-> touched]

\* set(key, model) from the head of its while loop
SetStep(c, cs, f) ==
    IF NeedEvict(cs, SizeOf(f.model), Len(c))
    THEN \* evictLRU -> delete(oldestKey), up to the await of the adapter's unload
         LET v == c[OldestIndex(c)] IN
         Reached(c, cs - v.size, [f EXCEPT !.pc = "evict", !.victim = v.key], v.model,
                 "pending", "")
    ELSE IF ExceedsCapacity(SizeOf(f.model))
    THEN Reached(c, cs, f, 0, "capacity_exceeded", "")
    ELSE IF MapHas(c, f.key)
    THEN Reached(c, cs - ReplacedSize(c, f.key),
                 [f EXCEPT !.pc = "replace", !.lastAccessed = now],
                 MapGet(c, f.key).model, "pending", "")
    ELSE Reached(MapSet(c, f.key, NewEntry(f.key, f.model, now)), cs + SizeOf(f.model),
                 f, 0, "ok", f.key)

\* delete(key)
DeleteStep(c, cs, f) ==
    IF MapHas(c, f.victim)
    THEN Reached(c, cs - MapGet(c, f.victim).size, [f EXCEPT !.pc = "delete"],
                 MapGet(c, f.victim).model, "pending", "")
    ELSE Reached(c, cs, f, 0, "ok", "")

\* the second loop of prune from position f.index: delete(key) for each key in turn
RECURSIVE PruneStep(_, _, _)
PruneStep(c, cs, f) ==
    IF f.index > Len(f.keysToDelete)
    THEN Reached(c, cs, f, 0, "ok", "")
    ELSE LET k == f.keysToDelete[f.index] IN
         IF MapHas(c, k)
         THEN Reached(c, cs - MapGet(c, k).size, [f EXCEPT !.pc = "prune", !.victim = k],
                      MapGet(c, k).model, "pending", "")
         ELSE PruneStep(c, cs, [f EXCEPT !.index = f.index + 1])

\* currentSize after the awaited unload has rejected: the size subtracted before the
\* await is not put back
SizeAfterRejectedUnload(cs, size) == cs

\* the unload counts after the calls in unloads (a sequence of model ids)
RECURSIVE Logged(_, _)
Logged(log, unloads) ==
    IF unloads = <<>> THEN log
    ELSE LET m == Head(unloads) IN
         Logged([log EXCEPT ![m] = IF log[m] < MaxUnloadCount THEN log[m] + 1 ELSE log[m]],
                Tail(unloads))

\* the access order after a step: the keys no longer present are dropped, and the
\* key whose entry the step installed or hit goes last
Accessed(order, c, touched, by) ==
    LET kept == SelectSeq(order, LAMBDA a : MapHas(c, a.key) /\ a.key # touched)
    IN IF touched # "" /\ MapHas(c, touched)
       THEN Append(kept, [key |-> touched, by |-> by])
       ELSE kept

\* which calls the caller may start: a sequential caller none while one is in flight
CanStart(mode) ==
    IF mode = "overlapping" THEN Len(tasks) < MaxTasks ELSE tasks = <<>>

\* which models the caller passes to set: never one the cache has unloaded; a caller
\* whose calls overlap, or whose adapter may fail, passes every model once only
CanStore(m, mode) ==
    /\ unloadLog[m] = 0
    /\ mode # "sequential" =>
           /\ \A i \in 1..Len(concCache) : concCache[i].model # m
           /\ \A i \in 1..Len(tasks) : tasks[i].model # m

ConcInit ==
    /\ concCache = <<>>
    /\ concSize = 0
    /\ tasks = <<>>
    /\ concRet = NoConcRet
    /\ unloadLog = [m \in ConcModels |-> 0]
    /\ recency = <<>>
    /\ failures = 0

\* the state after a call has run, from its start or from an await, as far as r
Continue(r, others, by) ==
    /\ concCache' = r.c
    /\ concSize' = r.cs
    /\ tasks' = IF r.unload = 0 THEN others ELSE Append(others, r.frame)
    /\ concRet' = [op |-> r.frame.op, tag |-> r.tag, model |-> 0]
    /\ unloadLog' = IF r.unload = 0 THEN unloadLog ELSE Logged(unloadLog, <<r.unload>>)
    /\ recency' = Accessed(recency, r.c, r.touched, by)

\* get(key): no suspension point
ConcGet(k, mode) ==
    /\ CanStart(mode)
    /\ IF ~MapHas(concCache, k)
       THEN /\ concRet' = [op |-> "get", tag |-> "null", model |-> 0]
            /\ UNCHANGED <<concCache, recency>>
       ELSE LET cached == MapGet(concCache, k) IN
            /\ cached.hitCount < MaxHits
            /\ concCache' = MapSet(MapDelete(concCache, k), k, HitEntry(cached))
            /\ concRet' = [op |-> "get", tag |-> "model", model |-> cached.model]
            /\ recency' = Accessed(recency, concCache', k, "get")
    /\ UNCHANGED <<concSize, tasks, unloadLog, failures>>
    /\ UNCHANGED notConc

\* set(key, model) is called
ConcSet(k, m, mode) ==
    /\ CanStart(mode)
    /\ CanStore(m, mode)
    /\ Continue(SetStep(concCache, concSize,
                        [NoTask EXCEPT !.op = "set", !.key = k, !.model = m]),
                tasks, IF MapHas(concCache, k) THEN "overwrite" ELSE "insert")
    /\ UNCHANGED failures
    /\ UNCHANGED notConc

\* delete(key) is called
ConcDelete(k, mode) ==
    /\ CanStart(mode)
    /\ Continue(DeleteStep(concCache, concSize,
                           [NoTask EXCEPT !.op = "delete", !.victim = k]),
                tasks, "")
    /\ UNCHANGED failures
    /\ UNCHANGED notConc

\* prune(maxAge) is called
ConcPrune(maxAge, mode) ==
    /\ CanStart(mode)
    /\ Continue(PruneStep(concCache, concSize,
                          [NoTask EXCEPT !.op = "prune", !.index = 1,
                                         !.keysToDelete = KeysToDelete(concCache, now, maxAge)]),
                tasks, "")
    /\ UNCHANGED failures
    /\ UNCHANGED notConc

\* clear() is called: the adapter's unloadModel is invoked for every entry, then the
\* call awaits Promise.allSettled
ConcClear(mode) ==
    /\ CanStart(mode)
    /\ tasks' = Append(tasks, [NoTask EXCEPT !.op = "clear", !.pc = "clear"])
    /\ unloadLog' = Logged(unloadLog, [i \in 1..Len(concCache) |-> concCache[i].model])
    /\ concRet' = [op |-> "clear", tag |-> "pending", model |-> 0]
    /\ UNCHANGED <<concCache, concSize, recency, failures>>
    /\ UNCHANGED notConc

\* the tasks other than the one at position t
Others(t) == [i \in 1..(Len(tasks) - 1) |-> IF i < t THEN tasks[i] ELSE tasks[i + 1]]

\* the unload awaited by the call at position t resolves: the call goes on to its next
\* await or to its end
ConcResume(t) ==
    /\ t \in 1..Len(tasks)
    /\ LET f == tasks[t] IN
       CASE f.pc = "evict" ->
                Continue(SetStep(MapDelete(concCache, f.victim), concSize, f), Others(t),
                         "insert")
         [] f.pc = "replace" ->
                Continue(Reached(MapSet(concCache, f.key,
                                        NewEntry(f.key, f.model, f.lastAccessed)),
                                 concSize + SizeOf(f.model), f, 0, "ok", f.key),
                         Others(t),
                         IF MapHas(concCache, f.key) THEN "overwrite" ELSE "insert")
         [] f.pc = "delete" ->
                Continue(Reached(MapDelete(concCache, f.victim), concSize, f, 0, "ok", ""),
                         Others(t), "")
         [] f.pc = "prune" ->
                Continue(PruneStep(MapDelete(concCache, f.victim), concSize,
                                   [f EXCEPT !.index = f.index + 1]),
                         Others(t), "")
         [] f.pc = "clear" ->
                Continue(Reached(<<>>, SizeAfterClear(concSize), f, 0, "ok", ""),
                         Others(t), "")
    /\ UNCHANGED failures
    /\ UNCHANGED notConc

\* the unload awaited by the set, delete or prune call at position t rejects: the
\* error goes through delete (and evictLRU, prune or set) to the caller
ConcUnloadRejects(t) ==
    /\ t \in 1..Len(tasks)
    /\ tasks[t].pc # "clear"
    /\ failures < MaxRejections
    /\ failures' = failures + 1
    /\ tasks' = Others(t)
    /\ concRet' = [op |-> tasks[t].op, tag |-> "unload_rejected", model |-> 0]
    /\ concSize' = SizeAfterRejectedUnload(concSize,
                       MapGet(concCache,
                              IF tasks[t].pc = "replace" THEN tasks[t].key
                              ELSE tasks[t].victim).size)
    /\ UNCHANGED <<concCache, unloadLog, recency>>
    /\ UNCHANGED notConc

NextCacheSequential ==
    \/ Tick
    \/ \E k \in ConcKeys : ConcGet(k, "sequential")
    \/ \E k \in ConcKeys, m \in ConcModels : ConcSet(k, m, "sequential")
    \/ \E k \in ConcKeys : ConcDelete(k, "sequential")
    \/ \E maxAge \in MaxAges : ConcPrune(maxAge, "sequential")
    \/ ConcClear("sequential")
    \/ \E t \in 1..MaxTasks : ConcResume(t)

NextCacheFailing ==
    \/ Tick
    \/ \E k \in ConcKeys : ConcGet(k, "failing")
    \/ \E k \in ConcKeys, m \in ConcModels : ConcSet(k, m, "failing")
    \/ \E k \in ConcKeys : ConcDelete(k, "failing")
    \/ \E maxAge \in MaxAges : ConcPrune(maxAge, "failing")
    \/ \E t \in 1..MaxTasks : ConcResume(t)
    \/ \E t \in 1..MaxTasks : ConcUnloadRejects(t)

NextCacheOverlap ==
    \/ Tick
    \/ \E k \in ConcKeys : ConcGet(k, "overlapping")
    \/ \E k \in ConcKeys, m \in ConcModels : ConcSet(k, m, "overlapping")
    \/ \E k \in ConcKeys : ConcDelete(k, "overlapping")
    \/ \E maxAge \in MaxAges : ConcPrune(maxAge, "overlapping")
    \/ \E t \in 1..MaxTasks : ConcResume(t)

(***************************************************************************)
(* BackpressureHandler                                                     *)
(***************************************************************************)
\* the test of acquire()
CanGrantInclusive(p) == p <= maxPending

CanGrant(p) == p < maxPending

\* (a release() that never calls a resolver)
NoResolver(w) == <<>>

\* (a release() that takes the newest resolver: pop() for shift())
NewestResolver(w) == IF w = <<>> THEN <<>> ELSE <<w[Len(w)]>>

\* waitingResolvers.shift(): the resolver release() takes out of the waiting list, the
\* oldest one, if there is one
TakenResolver(w) == IF w = <<>> THEN <<>> ELSE <<Head(w)>>

\* the resolver release() calls
CalledResolver(w) == TakenResolver(w)

BPInit ==
    /\ pending = 0
    /\ maxPending \in 0..MaxPendingBound
    /\ waitingResolvers = <<>>
    /\ acquires = 0
    /\ resolved = {}
    /\ resumed = <<>>
    /\ bpOp = "none"

BPParked ==
    /\ pending = 0
    /\ maxPending = 0
    /\ waitingResolvers = <<>>
    /\ acquires = 0
    /\ resolved = {}
    /\ resumed = <<>>
    /\ bpOp = "none"

\* acquire()
Acquire ==
    /\ acquires < MaxAcquires
    /\ acquires' = acquires + 1
    /\ bpOp' = "acquire"
    /\ IF CanGrant(pending)
       THEN /\ pending' = pending + 1
            /\ resolved' = resolved \cup {acquires + 1}
            /\ UNCHANGED waitingResolvers
       ELSE /\ waitingResolvers' = Append(waitingResolvers, acquires + 1)
            /\ UNCHANGED <<pending, resolved>>
    /\ UNCHANGED <<maxPending, resumed>>
    /\ UNCHANGED notBP

\* release()
Release ==
    /\ pending > -MaxDebt
    /\ bpOp' = "release"
    /\ LET taken == TakenResolver(waitingResolvers)
           called == CalledResolver(waitingResolvers)
       IN /\ waitingResolvers' = SelectSeq(waitingResolvers, LAMBDA r : <<r>> # taken)
          /\ pending' = IF taken # <<>> THEN (pending - 1) + 1 ELSE pending - 1
          /\ resolved' = resolved \cup {called[i] : i \in 1..Len(called)}
          /\ resumed' = resumed \o called
    /\ UNCHANGED <<maxPending, acquires>>
    /\ UNCHANGED notBP

NextBP ==
    \/ Acquire
    \/ Release

(***************************************************************************)
(* TokenBuffer                                                             *)
(***************************************************************************)
Tokens == {"A", "B", "C", "D", ""}

\* Array.prototype.join(sep) on an array of strings
RECURSIVE Join(_, _)
Join(a, sep) ==
    IF a = <<>> THEN ""
    ELSE IF Len(a) = 1 THEN a[1]
    ELSE a[1] \o sep \o Join(Tail(a), sep)

\* (an add() that drops the newest token: pop() for shift())
AfterAddDropNewest(buf, t) ==
    LET pushed == Append(buf, t)
    IN IF Len(pushed) > tbMaxSize THEN SubSeq(pushed, 1, Len(pushed) - 1) ELSE pushed

\* the buffer after add(token): push, then shift once if longer than maxSize
AfterAdd(buf, t) ==
    LET pushed == Append(buf, t)
    IN IF Len(pushed) > tbMaxSize THEN Tail(pushed) ELSE pushed

\* getText()
GetText(buf) == Join(buf, "")

TBInit ==
    /\ buffer = <<>>
    /\ tbMaxSize \in 1..MaxCapacity
    /\ added = <<>>

TBParked ==
    /\ buffer = <<>>
    /\ tbMaxSize = 1
    /\ added = <<>>

\* add(token)
TBAdd(t) ==
    /\ Len(added) < MaxAdds
    /\ buffer' = AfterAdd(buffer, t)
    /\ added' = Append(added, t)
    /\ UNCHANGED tbMaxSize
    /\ UNCHANGED notTB

\* clear()
TBClear ==
    /\ added # <<>>
    /\ buffer' = <<>>
    /\ added' = <<>>
    /\ UNCHANGED tbMaxSize
    /\ UNCHANGED notTB

NextTB ==
    \/ \E t \in Tokens : TBAdd(t)
    \/ TBClear

\* Array.prototype.slice(start) with an integer start: a negative start counts from the
\* end and is clamped at the first element, any other start counts from the front and
\* is clamped at the length; the elements from there to the end
Slice(a, start) ==
    LET k == IF start < 0
             THEN (IF Len(a) + start > 0 THEN Len(a) + start ELSE 0)
             ELSE (IF start < Len(a) THEN start ELSE Len(a))
    IN SubSeq(a, k + 1, Len(a))

NoLastN == [n |-> 0 - 1, result |-> <<>>]

TBQueryInit == tbLastN = NoLastN

\* getLastN(n): this.buffer.slice(-n)
TBGetLastN(n) ==
    /\ tbLastN' = [n |-> n, result |-> Slice(buffer, 0 - n)]
    /\ UNCHANGED tbVars
    /\ UNCHANGED notTBQuery

\* the tokens added between getLastN calls
QueryTokens == {"A", "B"}

NextTBQuery ==
    \/ \E t \in QueryTokens : TBAdd(t)
    \/ TBClear
    \/ \E n \in 0..MaxN : TBGetLastN(n)

(***************************************************************************)
(* ErrorHandler.withRetry                                                  *)
(***************************************************************************)
Forever == 0 - 1

\* messages of errors, character by character
MsgAlwaysFails == <<"A", "l", "w", "a", "y", "s", " ", "f", "a", "i", "l", "s">>
MsgNetworkDown == <<"N", "e", "t", "w", "o", "r", "k", " ", "d", "o", "w", "n">>
MsgAIError == <<"A", "I">>

PlainError(msg) == [kind |-> "Error", message |-> msg, code |-> "", recoverable |-> FALSE]
AIError(code, recoverable) ==
    [kind |-> "AIError", message |-> MsgAIError, code |-> code, recoverable |-> recoverable]

NoError == [kind |-> "none", message |-> <<>>, code |-> "", recoverable |-> FALSE]

\* the errors an operation may throw: two ordinary Errors, the AIErrors built by
\* AIError.modelLoadFailed, AIError.invalidInput, AIError.memoryError,
\* AIError.unsupportedFormat and AIError.hardwareError, and one built by
\* new AIError(ErrorCode.NETWORK_ERROR, message), whose recoverable flag defaults to false
Errors ==
    { PlainError(MsgAlwaysFails), PlainError(MsgNetworkDown),
      AIError("MODEL_LOAD_FAILED", TRUE), AIError("INVALID_INPUT", TRUE),
      AIError("MEMORY_ERROR", FALSE), AIError("UNSUPPORTED_FORMAT", FALSE),
      AIError("HARDWARE_ERROR", FALSE), AIError("NETWORK_ERROR", FALSE) }

retryableErrors == {"MODEL_LOAD_FAILED", "INFERENCE_FAILED", "TIMEOUT_ERROR", "NETWORK_ERROR"}

\* String.prototype.toLowerCase, on the letters the messages use
LowerOf ==
    ("A" :> "a") @@ ("I" :> "i") @@ ("N" :> "n") @@ ("M" :> "m") @@ ("O" :> "o") @@
    ("D" :> "d") @@ ("E" :> "e") @@ ("L" :> "l") @@ ("G" :> "g") @@ ("U" :> "u") @@
    ("F" :> "f")
ToLowerCase(msg) ==
    [i \in 1..Len(msg) |-> IF msg[i] \in DOMAIN LowerOf THEN LowerOf[msg[i]] ELSE msg[i]]

\* String.prototype.includes
Includes(msg, pat) ==
    \E i \in 1..(Len(msg) - Len(pat) + 1) : SubSeq(msg, i, i + Len(pat) - 1) = pat

PatTimeout == <<"t", "i", "m", "e", "o", "u", "t">>
PatNetwork == <<"n", "e", "t", "w", "o", "r", "k">>
PatConnection == <<"c", "o", "n", "n", "e", "c", "t", "i", "o", "n">>
PatTemporary == <<"t", "e", "m", "p", "o", "r", "a", "r", "y">>

\* (an isRetryable that accepts every error)
IsRetryableAlways(error) == TRUE

\* ErrorHandler.isRetryable
IsRetryable(error) ==
    IF error.kind = "AIError"
    THEN error.recoverable /\ error.code \in retryableErrors
    ELSE LET message == ToLowerCase(error.message)
         IN \/ Includes(message, PatTimeout)
            \/ Includes(message, PatNetwork)
            \/ Includes(message, PatConnection)
            \/ Includes(message, PatTemporary)

\* Math.pow(2, n)
RECURSIVE Pow2(_)
Pow2(n) == IF n = 0 THEN 1 ELSE 2 * Pow2(n - 1)

\* does the operation's call number n throw?
Throws(n) == plan.fails = Forever \/ n <= plan.fails

RetryInit ==
    /\ rpc = "idle"
    /\ rargs = [maxRetries |-> 0, backoffMs |-> 0]
    /\ plan = [fails |-> 0, error |-> NoError]
    /\ attempt = 0
    /\ calls = 0
    /\ lastError = NoError
    /\ delay = 0
    /\ rresult = [tag |-> "none", error |-> NoError]

\* withRetry(operation, maxRetries, backoffMs) is called: the loop starts and
\* operation() is called for the first time
WithRetry(maxRetries, backoffMs, fails, error) ==
    /\ rpc = "idle"
    /\ rargs' = [maxRetries |-> maxRetries, backoffMs |-> backoffMs]
    /\ plan' = [fails |-> fails, error |-> error]
    /\ attempt' = 0
    /\ calls' = 1
    /\ rpc' = "calling"
    /\ UNCHANGED <<lastError, delay, rresult>>
    /\ UNCHANGED notRetry

\* operation() resolves: withRetry returns its value
OperationReturns ==
    /\ rpc = "calling"
    /\ ~Throws(calls)
    /\ rresult' = [tag |-> "value", error |-> NoError]
    /\ rpc' = "done"
    /\ UNCHANGED <<rargs, plan, attempt, calls, lastError, delay>>
    /\ UNCHANGED notRetry

\* operation() rejects: the catch block of withRetry
OperationThrows ==
    /\ rpc = "calling"
    /\ Throws(calls)
    /\ lastError' = plan.error
    /\ IF attempt = rargs.maxRetries \/ ~IsRetryable(plan.error)
       THEN /\ rresult' = [tag |-> "error", error |-> plan.error]
            /\ rpc' = "done"
            /\ UNCHANGED delay
       ELSE /\ delay' = rargs.backoffMs * Pow2(attempt)
            /\ rpc' = "sleeping"
            /\ UNCHANGED rresult
    /\ UNCHANGED <<rargs, plan, attempt, calls>>
    /\ UNCHANGED notRetry

\* the backoff timer fires: the next round of the loop calls operation() again
BackoffElapsed ==
    /\ rpc = "sleeping"
    /\ attempt' = attempt + 1
    /\ calls' = calls + 1
    /\ rpc' = "calling"
    /\ UNCHANGED <<rargs, plan, lastError, delay, rresult>>
    /\ UNCHANGED notRetry

NextRetry ==
    \/ \E maxRetries \in 0..MaxRetriesBound, backoffMs \in {10, 1000},
          fails \in (0..MaxFailures) \cup {Forever}, error \in Errors :
            WithRetry(maxRetries, backoffMs, fails, error)
    \/ OperationReturns
    \/ OperationThrows
    \/ BackoffElapsed

(***************************************************************************)
(* ModelRegistry                                                           *)
(***************************************************************************)
\* String.prototype.endsWith
EndsWith(str, suffix) ==
    /\ Len(str) >= Len(suffix)
    /\ SubSeq(str, Len(str) - Len(suffix) + 1, Len(str)) = suffix

SuffixGGUF == <<".", "g", "g", "u", "f">>
SuffixTFLite == <<".", "t", "f", "l", "i", "t", "e">>

\* model paths, character by character
PathGGUF == <<"M", "O", "D", "E", "L", ".", "G", "G", "U", "F">>
PathTFLite == <<"m", "o", "d", "e", "l">> \o SuffixTFLite
PathBin == <<"u", "n", "k", "n", "o", "w", "n", ".", "b", "i", "n">>
Paths == {PathGGUF, PathTFLite, PathBin}

Formats == {"gguf", "tflite", "onnx", "pte"}

\* the optional modelInfo argument (only its format is read) and the optional
\* hardware argument (only hasGPU is read)
Undefined == [defined |-> FALSE, format |-> "", hasGPU |-> FALSE]
ModelInfos == {Undefined} \cup {[defined |-> TRUE, format |-> f, hasGPU |-> FALSE] : f \in Formats}
Hardwares == {Undefined} \cup {[defined |-> TRUE, format |-> "", hasGPU |-> g] : g \in BOOLEAN}

\* new GGUFAdapter(): an adapter object with its format tag, what canHandle reads,
\* and the getCapabilities() fields that selectBestAdapter reads
GGUFAdapter(id) ==
    [id |-> id, format |-> "gguf", suffix |-> SuffixGGUF, handlesAll |-> FALSE,
     supportsStreaming |-> TRUE, supportsGPU |-> TRUE, supportsQuantization |-> 5]

\* new TFLiteAdapter()
TFLiteAdapter(id) ==
    [id |-> id, format |-> "tflite", suffix |-> SuffixTFLite, handlesAll |-> FALSE,
     supportsStreaming |-> FALSE, supportsGPU |-> TRUE, supportsQuantization |-> 2]

\* another implementation of ModelAdapter: its canHandle accepts every model
CustomAdapter(id, format, streaming, gpu, quantization) ==
    [id |-> id, format |-> format, suffix |-> <<>>, handlesAll |-> TRUE,
     supportsStreaming |-> streaming, supportsGPU |-> gpu,
     supportsQuantization |-> quantization]

NoAdapter == CustomAdapter(0, "", FALSE, FALSE, 0)

\* the adapter objects that get registered: two GGUFAdapter instances, a
\* TFLiteAdapter and two custom adapters
AdapterObjects ==
    { GGUFAdapter(1), TFLiteAdapter(2), GGUFAdapter(3),
      CustomAdapter(4, "onnx", TRUE, TRUE, 1), CustomAdapter(5, "pte", FALSE, FALSE, 0) }

AdapterById(id) == CHOOSE a \in AdapterObjects : a.id = id

\* adapter.canHandle(modelPath, info)
CanHandle(a, modelPath, info) ==
    \/ a.handlesAll
    \/ info.defined /\ info.format = a.format
    \/ EndsWith(ToLowerCase(modelPath), a.suffix)

\* this.adapters.set(adapter.format, adapter): an existing key keeps its place
AdaptersSet(m, a) ==
    IF \E i \in 1..Len(m) : m[i].format = a.format
    THEN [i \in 1..Len(m) |-> IF m[i].format = a.format THEN a ELSE m[i]]
    ELSE Append(m, a)

\* the score selectBestAdapter gives to a candidate
Score(a, info, hardware) ==
    (IF info.defined /\ info.format = a.format THEN 100 ELSE 0)
    + (IF hardware.defined /\ hardware.hasGPU /\ a.supportsGPU THEN 50 ELSE 0)
    + (IF a.supportsStreaming THEN 20 ELSE 0)
    + (IF a.supportsQuantization > 0 THEN 10 ELSE 0)

\* the candidates array: {adapter, score} of the adapters that can handle the model,
\* in the iteration order of the Map
RECURSIVE CandidatesOf(_, _, _, _)
CandidatesOf(m, modelPath, info, hardware) ==
    IF m = <<>> THEN <<>>
    ELSE LET rest == CandidatesOf(Tail(m), modelPath, info, hardware)
         IN IF CanHandle(Head(m), modelPath, info)
            THEN <<[adapter |-> Head(m), score |-> Score(Head(m), info, hardware)]>> \o rest
            ELSE rest

\* (a sort that puts the last of several equal elements first)
LastMaxIndex(c) ==
    CHOOSE i \in 1..Len(c) :
        /\ \A j \in 1..Len(c) : c[j].score <= c[i].score
        /\ \A j \in (i + 1)..Len(c) : c[j].score < c[i].score

\* the index that a stable sort by descending score puts first
FirstMaxIndex(c) ==
    CHOOSE i \in 1..Len(c) :
        /\ \A j \in 1..Len(c) : c[j].score <= c[i].score
        /\ \A j \in 1..(i - 1) : c[j].score < c[i].score

\* candidates.sort((a, b) => b.score - a.score): Array.prototype.sort is stable
RECURSIVE SortByScore(_)
SortByScore(c) ==
    IF c = <<>> THEN <<>>
    ELSE LET i == FirstMaxIndex(c)
         IN <<c[i]>> \o SortByScore(SubSeq(c, 1, i - 1) \o SubSeq(c, i + 1, Len(c)))

NoSelArgs == [modelPath |-> <<>>, modelInfo |-> Undefined, hardware |-> Undefined]
NoSelection == [tag |-> "none", adapter |-> NoAdapter]

RegistryInit ==
    /\ adapters = <<>>
    /\ registered = <<>>
    /\ selArgs = NoSelArgs
    /\ selected = NoSelection
    /\ selCalls = 0

\* registerAdapter(adapter)
RegisterAdapter(a) ==
    /\ Len(registered) < MaxRegistrations
    /\ adapters' = AdaptersSet(adapters, a)
    /\ registered' = Append(registered, a.id)
    /\ selArgs' = NoSelArgs
    /\ selected' = NoSelection
    /\ selCalls' = 0
    /\ UNCHANGED notRegistry

\* (a selection that, among the candidates, passes over the adapter it returned last)
SelectionRotating(as, modelPath, modelInfo, hardware) ==
    LET candidates == CandidatesOf(as, modelPath, modelInfo, hardware)
        others == SelectSeq(candidates, LAMBDA c : c.adapter # selected.adapter)
    IN IF Len(candidates) = 0 THEN [tag |-> "null", adapter |-> NoAdapter]
       ELSE IF Len(others) = 0
            THEN [tag |-> "adapter", adapter |-> SortByScore(candidates)[1].adapter]
            ELSE [tag |-> "adapter", adapter |-> SortByScore(others)[1].adapter]

\* what selectBestAdapter returns: null without candidates, else the adapter of the
\* first candidate after the sort
Selection(as, modelPath, modelInfo, hardware) ==
    LET candidates == CandidatesOf(as, modelPath, modelInfo, hardware)
    IN IF Len(candidates) = 0
       THEN [tag |-> "null", adapter |-> NoAdapter]
       ELSE [tag |-> "adapter", adapter |-> SortByScore(candidates)[1].adapter]

\* selectBestAdapter(modelPath, modelInfo, hardware)
SelectBestAdapter(modelPath, modelInfo, hardware) ==
    LET args == [modelPath |-> modelPath, modelInfo |-> modelInfo, hardware |-> hardware]
    IN /\ selArgs' = args
       /\ selected' = Selection(adapters, modelPath, modelInfo, hardware)
       /\ selCalls' = IF selArgs = args
                       THEN (IF selCalls < MaxSelCalls THEN selCalls + 1 ELSE selCalls)
                       ELSE 1
       /\ UNCHANGED <<adapters, registered>>
       /\ UNCHANGED notRegistry

\* registerLoadedModel(model): the model enters the Map of loaded models under its id
RegisterLoadedModel(kind) ==
    /\ loads < MaxLoads
    /\ loads' = loads + 1
    /\ loadedModels' = Append(loadedModels, [id |-> loads + 1, type |-> kind.type, ops |-> kind.ops])
    /\ UNCHANGED fcall
    /\ UNCHANGED notRegistryUnload
    /\ UNCHANGED ruVars

NextRegistry ==
    \/ \E a \in AdapterObjects : RegisterAdapter(a)
    \/ \E modelPath \in Paths, modelInfo \in ModelInfos, hardware \in Hardwares :
          SelectBestAdapter(modelPath, modelInfo, hardware)

\* the registry with models being loaded between the calls
NextRegistryModels ==
    \/ \E a \in AdapterObjects : RegisterAdapter(a)
    \/ \E modelPath \in Paths, modelInfo \in ModelInfos, hardware \in Hardwares :
          SelectBestAdapter(modelPath, modelInfo, hardware)
    \/ RegisterLoadedModel([type |-> "llm", ops |-> {"generate", "chat"}])

(***************************************************************************)
(* StreamController                                                        *)
(***************************************************************************)
Chunks == {"a", "b"}

\* ReadableStreamDefaultController.enqueue throws a TypeError unless the stream is
\* readable and close has not been requested
EnqueueThrows == closeRequested \/ streamState # "readable"

\* (a push without the check of _closed and without the try/catch)
PushResultUnguarded == IF EnqueueThrows THEN "throw" ELSE "true"

\* what push(value) returns
PushResult ==
    IF closed \/ ~controller THEN "false"
    ELSE IF EnqueueThrows THEN "false"
    ELSE "true"

\* (an enqueue that puts the chunk at the head of the queue)
EnqueueValueFront(q, value) == <<value>> \o q

\* controller.enqueue(value) with no read request pending: the chunk goes to the tail
\* of the queue
EnqueueValue(q, value) == Append(q, value)

\* (a close() or error() that acts whatever the state of the controller)
CanTerminateAlways == TRUE

\* the test that close() and error() make before they act
CanTerminate == ~closed /\ controller

SCInit ==
    /\ closed = FALSE
    /\ controller = TRUE
    /\ streamState = "readable"
    /\ closeRequested = FALSE
    /\ queue = <<>>
    /\ readRequests = 0
    /\ received = <<>>
    /\ open = TRUE
    /\ pushes = 0
    /\ scRet = "none"
    /\ scOp = "none"
    /\ accepted = <<>>
    /\ consumerCancelled = FALSE

\* push(value): an enqueue that succeeds hands the chunk to a pending read request,
\* or else puts it on the queue
Push(value) ==
    /\ pushes < MaxPushes
    /\ pushes' = pushes + 1
    /\ scRet' = PushResult
    /\ scOp' = "push"
    /\ IF PushResult = "true"
       THEN /\ accepted' = Append(accepted, value)
            /\ IF readRequests > 0
               THEN /\ received' = Append(received, value)
                    /\ readRequests' = readRequests - 1
                    /\ UNCHANGED queue
               ELSE /\ queue' = EnqueueValue(queue, value)
                    /\ UNCHANGED <<received, readRequests>>
       ELSE UNCHANGED <<queue, received, readRequests, accepted>>
    /\ UNCHANGED <<closed, controller, streamState, closeRequested, open, consumerCancelled>>
    /\ UNCHANGED notSC

\* close(): controller.close() throws unless the stream is readable and close has not
\* been requested; it closes the stream at once when the queue is empty
Close ==
    /\ open' = FALSE
    /\ scOp' = "close"
    /\ IF CanTerminate
       THEN IF EnqueueThrows
            THEN /\ scRet' = "throw"
                 /\ UNCHANGED <<closed, closeRequested, streamState, readRequests>>
            ELSE /\ closeRequested' = TRUE
                 /\ streamState' = IF queue = <<>> THEN "closed" ELSE "readable"
                 /\ readRequests' = 0
                 /\ closed' = TRUE
                 /\ scRet' = "void"
       ELSE /\ scRet' = "void"
            /\ UNCHANGED <<closed, closeRequested, streamState, readRequests>>
    /\ UNCHANGED <<controller, queue, received, pushes, accepted, consumerCancelled>>
    /\ UNCHANGED notSC

\* error(reason): controller.error() does nothing unless the stream is readable
Error ==
    /\ open' = FALSE
    /\ scOp' = "error"
    /\ scRet' = "void"
    /\ IF CanTerminate
       THEN /\ IF streamState = "readable"
               THEN /\ streamState' = "errored"
                    /\ queue' = <<>>
                    /\ readRequests' = 0
               ELSE UNCHANGED <<streamState, queue, readRequests>>
            /\ closed' = TRUE
       ELSE UNCHANGED <<closed, streamState, queue, readRequests>>
    /\ UNCHANGED <<controller, closeRequested, received, pushes, accepted, consumerCancelled>>
    /\ UNCHANGED notSC

\* the consumer cancels the stream: a readable stream is closed, its queue is reset
\* and the cancel callback of the underlying source runs
Cancel ==
    /\ open' = FALSE
    /\ scOp' = "cancel"
    /\ IF streamState = "readable"
       THEN /\ streamState' = "closed"
            /\ queue' = <<>>
            /\ readRequests' = 0
            /\ closed' = TRUE
       ELSE UNCHANGED <<streamState, queue, readRequests, closed>>
    /\ consumerCancelled' = TRUE
    /\ UNCHANGED <<controller, closeRequested, received, pushes, scRet, accepted>>
    /\ UNCHANGED notSC

\* the consumer reads from the readable stream: it takes the oldest chunk of the
\* queue (and the stream closes if close was requested and the queue is now empty),
\* or its request waits for the next enqueue
Read ==
    /\ streamState = "readable"
    /\ scOp' = "read"
    /\ IF queue # <<>>
       THEN /\ received' = Append(received, Head(queue))
            /\ queue' = Tail(queue)
            /\ streamState' = IF closeRequested /\ Tail(queue) = <<>>
                              THEN "closed" ELSE "readable"
            /\ UNCHANGED readRequests
       ELSE /\ readRequests < MaxReads
            /\ readRequests' = readRequests + 1
            /\ UNCHANGED <<received, queue, streamState>>
    /\ UNCHANGED <<closed, controller, closeRequested, open, pushes, scRet, accepted,
                    consumerCancelled>>
    /\ UNCHANGED notSC

NextSC ==
    \/ \E value \in Chunks : Push(value)
    \/ Close
    \/ Error
    \/ Cancel
    \/ Read

(***************************************************************************)
(* StreamCancellation                                                      *)
(***************************************************************************)
\* what a callback does when it is invoked: it returns, it throws, or it passes a
\* further (returning) callback to onCancel of the same StreamCancellation
CallbackKinds == {"returns", "throws", "registers"}

\* the bookkeeping that a run of callbacks works on
CnState(list, regs, invocations, threw) ==
    [list |-> list, registered |-> regs, invocations |-> invocations, threw |-> threw]

\* callback() for a callback that just returns or throws
InvokeSimple(g, id, call) ==
    [g EXCEPT !.invocations = Append(@, [id |-> id, call |-> call]),
              !.threw = (g.registered[id].kind = "throws")]

\* onCancel(callback) for a callback that just returns or throws, as a function of
\* the state: invoke it at once if cancelled, else push it
OnCancelSimple(g, kind, call, isCancelled) ==
    LET id == Len(g.registered) + 1
        g1 == [g EXCEPT !.registered = Append(@, [kind |-> kind, call |-> call])]
    IN IF isCancelled
       THEN InvokeSimple(g1, id, call)
       ELSE [g1 EXCEPT !.list = Append(@, id)]

\* callback(): the callback's own effect follows its invocation
InvokeCallback(g, id, call, isCancelled) ==
    LET g1 == [g EXCEPT !.invocations = Append(@, [id |-> id, call |-> call])]
    IN IF g.registered[id].kind = "registers"
       THEN OnCancelSimple(g1, "returns", call, isCancelled)
       ELSE InvokeSimple(g, id, call)

\* this._onCancel.forEach(callback => { try { callback() } catch { console.warn } }):
\* forEach visits the elements the array had when it started
RECURSIVE ForEachCallback(_, _, _, _)
ForEachCallback(g, ids, call, isCancelled) ==
    IF ids = <<>> THEN g
    ELSE ForEachCallback([InvokeCallback(g, Head(ids), call, isCancelled) EXCEPT !.threw = FALSE],
                         Tail(ids), call, isCancelled)

\* (a cancel() that notifies on every call)
FirstCancelAlways == TRUE

\* the test cancel() makes before it notifies
FirstCancel == ~cancelled

CancellationInit ==
    /\ cancelled = FALSE
    /\ onCancelCallbacks = <<>>
    /\ cnRegistered = <<>>
    /\ cnInvocations = <<>>
    /\ cnCalls = 0
    /\ firstCancel = 0
    /\ cnOp = "none"
    /\ cnRet = "none"

\* cancel()
CancelStream ==
    /\ cnCalls < MaxCancellationCalls
    /\ cnCalls' = cnCalls + 1
    /\ cnOp' = "cancel"
    /\ cnRet' = "void"
    /\ firstCancel' = IF firstCancel = 0 THEN cnCalls + 1 ELSE firstCancel
    /\ IF FirstCancel
       THEN LET g == ForEachCallback(
                         CnState(onCancelCallbacks, cnRegistered, cnInvocations, FALSE),
                         onCancelCallbacks, cnCalls + 1, TRUE)
            IN /\ cancelled' = TRUE
               /\ onCancelCallbacks' = g.list
               /\ cnRegistered' = g.registered
               /\ cnInvocations' = g.invocations
       ELSE UNCHANGED <<cancelled, onCancelCallbacks, cnRegistered, cnInvocations>>
    /\ UNCHANGED notCancellation

\* onCancel(callback): an exception of a callback invoked at once reaches the caller
OnCancel(kind) ==
    /\ cnCalls < MaxCancellationCalls
    /\ cnCalls' = cnCalls + 1
    /\ cnOp' = "onCancel"
    /\ LET id == Len(cnRegistered) + 1
           g0 == CnState(onCancelCallbacks,
                         Append(cnRegistered, [kind |-> kind, call |-> cnCalls + 1]),
                         cnInvocations, FALSE)
           g == IF cancelled
                THEN InvokeCallback(g0, id, cnCalls + 1, cancelled)
                ELSE [g0 EXCEPT !.list = Append(@, id)]
       IN /\ onCancelCallbacks' = g.list
          /\ cnRegistered' = g.registered
          /\ cnInvocations' = g.invocations
          /\ cnRet' = IF g.threw THEN "throw" ELSE "void"
    /\ UNCHANGED <<cancelled, firstCancel>>
    /\ UNCHANGED notCancellation

NextCancellation ==
    \/ CancelStream
    \/ \E kind \in CallbackKinds : OnCancel(kind)

(***************************************************************************)
(* streamWithTimeout                                                       *)
(***************************************************************************)
\* the wrapper enters its finally block: generator.return() is called and awaited
EnterFinally(cause) ==
    /\ wpc' = "returning"
    /\ wCause' = cause
    /\ returnInvoked' = TRUE

TimeoutInit ==
    /\ wpc = "suspended"
    /\ wCause = "none"
    /\ timerPending = FALSE
    /\ genState = "suspended"
    /\ produced = <<>>
    /\ wReceived = <<>>
    /\ wResult = "none"
    /\ returnInvoked = FALSE
    /\ timedOut = FALSE

\* the consumer calls next() on the wrapper: a round of the loop arms the timer,
\* calls generator.next() and awaits the race
ConsumerNext ==
    /\ wpc = "suspended"
    /\ timerPending' = TRUE
    /\ genState' = "running"
    /\ wpc' = "racing"
    /\ wResult' = "none"
    /\ UNCHANGED <<wCause, produced, wReceived, returnInvoked, timedOut>>
    /\ UNCHANGED notTimeout

\* (a round that leaves its timer armed when the step has completed)
TimerAfterStepKept(pendingTimer) == pendingTimer

\* if (timeoutId) { clearTimeout(timeoutId); timeoutId = null; }
TimerAfterStep(pendingTimer) == FALSE

\* the step of the wrapped generator yields an item: if the wrapper is still racing,
\* the race is won, the timer is cleared and the item is yielded to the consumer
GeneratorYields(item) ==
    /\ genState = "running"
    /\ Len(produced) < MaxItems
    /\ genState' = "suspended"
    /\ produced' = Append(produced, item)
    /\ IF wpc = "racing"
       THEN /\ timerPending' = TimerAfterStep(timerPending)
            /\ wpc' = "suspended"
            /\ wReceived' = Append(wReceived, item)
            /\ wResult' = "value"
       ELSE UNCHANGED <<timerPending, wpc, wReceived, wResult>>
    /\ UNCHANGED <<wCause, returnInvoked, timedOut>>
    /\ UNCHANGED notTimeout

\* the step of the wrapped generator finishes the generator, by returning
\* (result.done: the loop breaks) or by throwing (the race rejects)
GeneratorEnds(how) ==
    /\ genState = "running"
    /\ genState' = "completed"
    /\ IF wpc = "racing"
       THEN /\ timerPending' = FALSE
            /\ EnterFinally(how)
       ELSE UNCHANGED <<timerPending, wpc, wCause, returnInvoked>>
    /\ UNCHANGED <<produced, wReceived, wResult, timedOut>>
    /\ UNCHANGED notTimeout

\* the timer fires before the step has completed: the race rejects with the timeout
\* error and the wrapper enters finally
TimerFires ==
    /\ wpc = "racing"
    /\ timerPending
    /\ timerPending' = FALSE
    /\ timedOut' = TRUE
    /\ EnterFinally("timeout")
    /\ UNCHANGED <<genState, produced, wReceived, wResult>>
    /\ UNCHANGED notTimeout

\* the consumer calls return() on the wrapper suspended at its yield (it leaves its
\* for-await loop)
ConsumerReturn ==
    /\ wpc = "suspended"
    /\ wReceived # <<>>
    /\ EnterFinally("return")
    /\ wResult' = "none"
    /\ UNCHANGED <<timerPending, genState, produced, wReceived, timedOut>>
    /\ UNCHANGED notTimeout

\* an async generator serves its requests in order: a return() waits for the
\* next() step in progress
ReturnServed == genState # "running"

\* the promise of generator.return() settles: the generator is completed, finally
\* ends, and the consumer's call on the wrapper settles
ReturnSettles ==
    /\ wpc = "returning"
    /\ ReturnServed
    /\ genState' = "completed"
    /\ wpc' = "done"
    /\ wResult' = IF wCause \in {"end", "return"} THEN "done" ELSE wCause
    /\ UNCHANGED <<wCause, timerPending, produced, wReceived, returnInvoked, timedOut>>
    /\ UNCHANGED notTimeout

TimeoutCleanupInit == returnRejected = FALSE

\* (a finally block that lets the error of generator.return() escape)
ResultAfterRejectedReturnThrown(cause) == "cleanup_error"

\* catch (error) { console.warn('Error closing generator:', error); }: the wrapper ends
\* as it would have ended had generator.return() fulfilled
ResultAfterRejectedReturn(cause) == IF cause \in {"end", "return"} THEN "done" ELSE cause

\* the promise of generator.return() rejects: the error is caught and logged, finally
\* ends, and the consumer's call on the wrapper settles
ReturnRejects ==
    /\ wpc = "returning"
    /\ ReturnServed
    /\ genState' = "completed"
    /\ wpc' = "done"
    /\ wResult' = ResultAfterRejectedReturn(wCause)
    /\ returnRejected' = TRUE
    /\ UNCHANGED <<wCause, timerPending, produced, wReceived, returnInvoked, timedOut>>
    /\ UNCHANGED notTimeoutCleanup

\* the consumer calls return() on the wrapper before its first next(): an async
\* generator that has not started completes without running its body
ConsumerReturnBeforeStart ==
    /\ wpc = "suspended"
    /\ wReceived = <<>>
    /\ wpc' = "done"
    /\ wCause' = "return"
    /\ wResult' = "done"
    /\ UNCHANGED <<timerPending, genState, produced, wReceived, returnInvoked, timedOut>>
    /\ UNCHANGED returnRejected
    /\ UNCHANGED notTimeoutCleanup

NextTimeout ==
    \/ ConsumerNext
    \/ \E item \in Chunks : GeneratorYields(item)
    \/ \E how \in {"end", "error"} : GeneratorEnds(how)
    \/ TimerFires
    \/ ConsumerReturn
    \/ ReturnSettles

NextTimeoutCleanup ==
    \/ ConsumerNext
    \/ \E item \in Chunks : GeneratorYields(item)
    \/ \E how \in {"end", "error"} : GeneratorEnds(how)
    \/ TimerFires
    \/ ConsumerReturn
    \/ ReturnSettles
    \/ ReturnRejects
    \/ ConsumerReturnBeforeStart

(***************************************************************************)
(* IDGAF                                                                   *)
(***************************************************************************)
Operations ==
    {"generate", "chat", "classify", "detect", "segment", "transcribe", "synthesize", "embed"}

\* the model type each modality call asks getCompatibleModels for
TypeOfOperation(op) ==
    CASE op \in {"generate", "chat"} -> "llm"
      [] op \in {"classify", "detect", "segment"} -> "vision"
      [] op \in {"transcribe", "synthesize"} -> "audio"
      [] op = "embed" -> "embedding"

\* the message of the error thrown when no loaded model has the type
NoModelsMessage(type) ==
    CASE type = "llm" -> "No LLM models loaded"
      [] type = "vision" -> "No vision models loaded"
      [] type = "audio" -> "No audio models loaded"
      [] type = "embedding" -> "No embedding models loaded"

\* the message of the error thrown when the model lacks the operation closure
UnsupportedMessage(op) ==
    CASE op = "generate" -> "Model does not support text generation"
      [] op = "chat" -> "Model does not support chat completion"
      [] op = "classify" -> "Model does not support image classification"
      [] op = "detect" -> "Model does not support object detection"
      [] op = "segment" -> "Model does not support image segmentation"
      [] op = "transcribe" -> "Model does not support speech transcription"
      [] op = "synthesize" -> "Model does not support speech synthesis"
      [] op = "embed" -> "Model does not support embedding generation"

\* the LoadedModels that adapters hand back: info.type and the operation closures present
ModelKinds ==
    { [type |-> "llm", ops |-> {"generate"}],
      [type |-> "llm", ops |-> {"generate", "chat"}],
      [type |-> "vision", ops |-> {"classify"}],
      [type |-> "vision", ops |-> {"classify", "detect", "segment"}],
      [type |-> "audio", ops |-> {}],
      [type |-> "audio", ops |-> {"transcribe", "synthesize"}],
      [type |-> "embedding", ops |-> {}],
      [type |-> "embedding", ops |-> {"embed"}] }

NoCall == [op |-> "none", result |-> "none", message |-> "", invoked |-> 0]

\* getCompatibleModels(type): getAllLoadedModels().filter(model => model.info.type === type)
GetCompatibleModels(type) == SelectSeq(loadedModels, LAMBDA model : model.type = type)

\* (a dispatch that looks for a model that has the operation closure)
ChosenSupporting(models, op) ==
    IF \E i \in 1..Len(models) : op \in models[i].ops
    THEN models[CHOOSE i \in 1..Len(models) :
                    op \in models[i].ops /\ \A j \in 1..(i - 1) : op \notin models[j].ops]
    ELSE models[1]

\* const model = models[0]
Chosen(models, op) == models[1]

FacadeInit ==
    /\ loadedModels = <<>>
    /\ loads = 0
    /\ fcall = NoCall

\* loadModel succeeds: adapter.loadModel hands back a LoadedModel with a fresh id and
\* registerLoadedModel puts it into the Map
LoadModel(kind) ==
    /\ loads < MaxLoads
    /\ loads' = loads + 1
    /\ loadedModels' = Append(loadedModels, [id |-> loads + 1, type |-> kind.type, ops |-> kind.ops])
    /\ fcall' = NoCall
    /\ UNCHANGED notFacade

\* unloadModel(modelId) of a loaded model: the model leaves the Map
UnloadModel(id) ==
    /\ \E i \in 1..Len(loadedModels) : loadedModels[i].id = id
    /\ loadedModels' = SelectSeq(loadedModels, LAMBDA model : model.id # id)
    /\ fcall' = NoCall
    /\ UNCHANGED loads
    /\ UNCHANGED notFacade

\* generate, chat, classify, detect, segment, transcribe, synthesize, embed: the
\* call up to the invocation of the operation closure
ModalityCall(op) ==
    LET models == GetCompatibleModels(TypeOfOperation(op))
    IN /\ fcall' =
            IF Len(models) = 0
            THEN [op |-> op, result |-> "error",
                  message |-> NoModelsMessage(TypeOfOperation(op)), invoked |-> 0]
            ELSE IF op \notin Chosen(models, op).ops
            THEN [op |-> op, result |-> "error", message |-> UnsupportedMessage(op),
                  invoked |-> 0]
            ELSE [op |-> op, result |-> "invoked", message |-> "",
                  invoked |-> Chosen(models, op).id]
       /\ UNCHANGED <<loadedModels, loads>>
       /\ UNCHANGED notFacade

NextFacade ==
    \/ \E kind \in ModelKinds : LoadModel(kind)
    \/ \E id \in 1..MaxLoads : UnloadModel(id)
    \/ \E op \in Operations : ModalityCall(op)

(***************************************************************************)
(* GGUFAdapter and TFLiteAdapter                                           *)
(***************************************************************************)
\* the LoadedModels the adapters build: GGUFAdapter.loadModel gives type 'llm',
\* TFLiteAdapter.inferModelType gives 'audio' or 'vision'
LoadedModelKinds ==
    { [format |-> "gguf", type |-> "llm"],
      [format |-> "tflite", type |-> "vision"],
      [format |-> "tflite", type |-> "audio"] }

\* the operation closures a LoadedModel carries
ClosuresOf(m) ==
    IF m.format = "gguf" THEN {"generate", "chat", "embed"}
    ELSE IF m.type = "vision" THEN {"classify", "detect", "segment"}
    ELSE {"detect", "segment"}

\* generate and chat are async generator functions: calling one returns a generator and
\* runs nothing; the body starts at the generator's first next()
GeneratorClosures == {"generate", "chat"}

\* the adapter's map that holds the model's native resources
EntriesOf(m) == IF m.format = "gguf" THEN loadedContexts ELSE tfliteLoadedModels

\* (a closure that captured the native resources when it was created)
HasEntryCaptured(entries, modelId) == TRUE

\* this.loadedContexts.get(modelId) / this.loadedModels.get(modelId) is defined
HasEntry(entries, modelId) == modelId \in entries

\* how a closure body can end once it found the native resources: embed rejects an
\* input that is not a string and chat a conversation that does not end with a user
\* message; otherwise the body reaches the inference engine, which answers or throws
BodyOutcomes(op) ==
    IF op \in {"embed", "chat"} THEN {"rejected_input", "inference", "inference_failed"}
    ELSE {"inference", "inference_failed"}

NoClosureCall == [id |-> 0, op |-> "none", afterUnload |-> FALSE, outcome |-> "none"]

AdaptersInit ==
    /\ loadedContexts = {}
    /\ tfliteLoadedModels = {}
    /\ issued = {}
    /\ unloadedIds = {}
    /\ generators = {}
    /\ closureCall = NoClosureCall

\* GGUFAdapter.loadModel / TFLiteAdapter.loadModel returning a LoadedModel: a fresh id
\* (timestamp and random suffix) is entered in the adapter's map
AdapterLoadModel(kind) ==
    /\ Cardinality(issued) < MaxAdapterLoads
    /\ LET modelId == Cardinality(issued) + 1
       IN  /\ IF kind.format = "gguf"
              THEN /\ loadedContexts' = loadedContexts \cup {modelId}
                   /\ UNCHANGED tfliteLoadedModels
              ELSE /\ tfliteLoadedModels' = tfliteLoadedModels \cup {modelId}
                   /\ UNCHANGED loadedContexts
           /\ issued' = issued \cup {[id |-> modelId, format |-> kind.format, type |-> kind.type]}
    /\ UNCHANGED <<unloadedIds, generators, closureCall>>
    /\ UNCHANGED notAdapters

\* GGUFAdapter.unloadModel(modelId) / TFLiteAdapter.unloadModel(modelId): disposes the
\* native resources, swallowing what dispose throws, and deletes the entry; an id the
\* adapter does not hold is ignored
AdapterUnloadModel(format, modelId) ==
    /\ IF format = "gguf"
       THEN /\ loadedContexts' = loadedContexts \ {modelId}
            /\ UNCHANGED tfliteLoadedModels
       ELSE /\ tfliteLoadedModels' = tfliteLoadedModels \ {modelId}
            /\ UNCHANGED loadedContexts
    /\ unloadedIds' =
           IF \E m \in issued : m.id = modelId /\ m.format = format
           THEN unloadedIds \cup {modelId}
           ELSE unloadedIds
    /\ UNCHANGED <<issued, generators, closureCall>>
    /\ UNCHANGED notAdapters

\* the body of an operation closure of LoadedModel m, from its first statement
ClosureBody(m, op) ==
    \E outcome \in BodyOutcomes(op) :
        closureCall' =
            [id |-> m.id, op |-> op, afterUnload |-> m.id \in unloadedIds,
             outcome |-> IF HasEntry(EntriesOf(m), m.id) THEN outcome ELSE "not_found"]

\* embed, classify, detect or segment of a LoadedModel is called: the body runs
InvokeClosure(m, op) ==
    /\ op \in ClosuresOf(m) \ GeneratorClosures
    /\ ClosureBody(m, op)
    /\ UNCHANGED <<loadedContexts, tfliteLoadedModels, issued, unloadedIds, generators>>
    /\ UNCHANGED notAdapters

\* generate or chat of a LoadedModel is called: a generator is returned
InvokeGenerator(m, op) ==
    /\ op \in ClosuresOf(m) \cap GeneratorClosures
    /\ Cardinality(generators \cup {[model |-> m, op |-> op]}) <= MaxGenerators
    /\ generators' = generators \cup {[model |-> m, op |-> op]}
    /\ UNCHANGED <<loadedContexts, tfliteLoadedModels, issued, unloadedIds, closureCall>>
    /\ UNCHANGED notAdapters

\* the first next() of a generator: the body of generate or chat runs
GeneratorFirstNext(g) ==
    /\ g \in generators
    /\ ClosureBody(g.model, g.op)
    /\ generators' = generators \ {g}
    /\ UNCHANGED <<loadedContexts, tfliteLoadedModels, issued, unloadedIds>>
    /\ UNCHANGED notAdapters

AllClosures == {"generate", "chat", "embed", "classify", "detect", "segment"}

NextAdapters ==
    \/ \E kind \in LoadedModelKinds : AdapterLoadModel(kind)
    \/ \E format \in {"gguf", "tflite"}, modelId \in 1..MaxAdapterLoads :
           AdapterUnloadModel(format, modelId)
    \/ \E m \in issued, op \in AllClosures : InvokeClosure(m, op)
    \/ \E m \in issued, op \in AllClosures : InvokeGenerator(m, op)
    \/ \E g \in generators : GeneratorFirstNext(g)

(***************************************************************************)
(* ModelRegistry.unloadModel                                               *)
(***************************************************************************)
IsTracked(models, id) == \E i \in 1..Len(models) : models[i].id = id

\* this.loadedModels.delete(modelId)
Untrack(models, id) == SelectSeq(models, LAMBDA model : model.id # id)

\* (an unloadModel that drops the model before it awaits the adapter)
TrackedWhileUnloadingEager(models, id) == Untrack(models, id)

\* the Map while unloadModel awaits the adapter's unload: the model is still tracked
TrackedWhileUnloading(models, id) == models

RegistryUnloadInit == rcalls = <<>>

\* unloadModel(modelId) is called: up to the await of model.adapter.unloadModel(modelId),
\* or to the end when the id is not tracked
RegistryUnloadModel(id) ==
    /\ Len(rcalls) < MaxUnloadCalls
    /\ IF IsTracked(loadedModels, id)
       THEN /\ rcalls' = Append(rcalls, [id |-> id, tracked |-> TRUE, invocations |-> 1,
                                          state |-> "awaiting"])
            /\ loadedModels' = TrackedWhileUnloading(loadedModels, id)
       ELSE /\ rcalls' = Append(rcalls, [id |-> id, tracked |-> FALSE, invocations |-> 0,
                                          state |-> "returned"])
            /\ UNCHANGED loadedModels
    /\ UNCHANGED <<loads, fcall>>
    /\ UNCHANGED notRegistryUnload

\* the adapter's unloadModel of call i completes or rejects
AdapterUnloadSettles(i, outcome) ==
    /\ i \in 1..Len(rcalls)
    /\ rcalls[i].state = "awaiting"
    /\ rcalls' = [rcalls EXCEPT ![i].state = outcome]
    /\ UNCHANGED facadeVars
    /\ UNCHANGED notRegistryUnload

\* call i goes on after its await: the model leaves the Map and the call returns, or
\* the adapter's rejection is thrown to the caller
RegistryUnloadResume(i) ==
    /\ i \in 1..Len(rcalls)
    /\ \/ /\ rcalls[i].state = "adapter_done"
          /\ loadedModels' = Untrack(loadedModels, rcalls[i].id)
          /\ rcalls' = [rcalls EXCEPT ![i].state = "returned"]
       \/ /\ rcalls[i].state = "adapter_rejected"
          /\ UNCHANGED loadedModels
          /\ rcalls' = [rcalls EXCEPT ![i].state = "thrown"]
    /\ UNCHANGED <<loads, fcall>>
    /\ UNCHANGED notRegistryUnload

NextRegistryUnload ==
    \/ RegisterLoadedModel([type |-> "llm", ops |-> {"generate", "chat"}])
    \/ \E id \in 1..MaxLoads : RegistryUnloadModel(id)
    \/ \E i \in 1..MaxUnloadCalls, outcome \in {"adapter_done", "adapter_rejected"} :
           AdapterUnloadSettles(i, outcome)
    \/ \E i \in 1..MaxUnloadCalls : RegistryUnloadResume(i)

(***************************************************************************)
(* IDGAF: loadModel, unloadModel and the performance metrics               *)
(***************************************************************************)
\* the models loadModel is called for
MetricKinds ==
    { [type |-> "llm", ops |-> {"generate", "chat"}],
      [type |-> "vision", ops |-> {"classify"}] }

\* modelInfo.size / (1024 * 1024) of the models above
MemoryUsageMB(kind) == IF kind.type = "llm" THEN 4 ELSE 1

\* Date.now() - startTime of a loadModel call and of a modality call, in milliseconds
LoadTimes == {5}
InferenceTimes == {1, 2}

\* the number of tokens a generate or chat call has counted
TokenCount == 3

\* how a loadModel call can end: getModelInfo returns nothing, selectBestAdapter
\* returns null, adapter.loadModel rejects, or the model is loaded
LoadOutcomes == {"info_unresolved", "no_adapter", "adapter_rejected", "loaded"}

NoLoadCall == [result |-> "none", id |-> 0, error |-> ""]

\* Map.set and Map.delete on performanceMetrics
MetricsSet(pm, id, record) ==
    [i \in (DOMAIN pm) \cup {id} |-> IF i = id THEN record ELSE pm[i]]

MetricsDelete(pm, id) == [i \in (DOMAIN pm) \ {id} |-> pm[i]]

\* (a record that starts with the load time as its inference time)
MetricsOnLoadTimed(loadTime, kind) ==
    [modelLoadTimeMs |-> loadTime, inferenceTimeMs |-> loadTime,
     memoryUsageMB |-> MemoryUsageMB(kind)]

\* the record loadModel stores for the model it has loaded
MetricsOnLoad(loadTime, kind) ==
    [modelLoadTimeMs |-> loadTime, inferenceTimeMs |-> 0,
     memoryUsageMB |-> MemoryUsageMB(kind)]

\* this.performanceMetrics.get(modelId) || { inferenceTimeMs: 0, memoryUsageMB: 0 }
Existing(pm, id) ==
    IF id \in DOMAIN pm THEN pm[id] ELSE [inferenceTimeMs |-> 0, memoryUsageMB |-> 0]

\* (a spread that keeps only the new fields)
MergeReplace(existing, metrics) == metrics

\* { ...existing, ...metrics }
Merge(existing, metrics) ==
    [f \in (DOMAIN existing) \cup (DOMAIN metrics) |->
        IF f \in DOMAIN metrics THEN metrics[f] ELSE existing[f]]

\* the fields a modality call passes to updatePerformanceMetrics
Measured(op, inferenceTime) ==
    IF op \in {"generate", "chat"}
    THEN [inferenceTimeMs |-> inferenceTime,
          tokensPerSecond |-> (TokenCount * 1000) \div inferenceTime]
    ELSE [inferenceTimeMs |-> inferenceTime]

MetricsInit ==
    /\ performanceMetrics = <<>>
    /\ lcall = NoLoadCall

\* loadModel(pathOrUrl, options): the registry and the metrics are written after the
\* last await, when the adapter has returned the model
IdgafLoadModel(kind, outcome, loadTime) ==
    /\ loads < MaxLoads
    /\ IF outcome = "loaded"
       THEN /\ loads' = loads + 1
            /\ loadedModels' = Append(loadedModels,
                                      [id |-> loads + 1, type |-> kind.type, ops |-> kind.ops])
            /\ performanceMetrics' =
                   MetricsSet(performanceMetrics, loads + 1, MetricsOnLoad(loadTime, kind))
            /\ lcall' = [result |-> "returned", id |-> loads + 1, error |-> ""]
       ELSE /\ lcall' = [result |-> "thrown", id |-> 0, error |-> outcome]
            /\ UNCHANGED <<loads, loadedModels, performanceMetrics>>
    /\ UNCHANGED fcall
    /\ UNCHANGED notMetrics

\* unloadModel(modelId): the registry unloads the model, then its record is deleted
IdgafUnloadModel(id) ==
    /\ loadedModels' = Untrack(loadedModels, id)
    /\ performanceMetrics' = MetricsDelete(performanceMetrics, id)
    /\ UNCHANGED <<loads, fcall, lcall>>
    /\ UNCHANGED notMetrics

\* the operation closure a modality call has invoked fulfils or rejects: the call
\* updates the metrics of its model and returns, or rethrows
ClosureSettles(outcome, inferenceTime) ==
    /\ fcall.result = "invoked"
    /\ IF outcome = "fulfilled"
       THEN /\ performanceMetrics' =
                   MetricsSet(performanceMetrics, fcall.invoked,
                              Merge(Existing(performanceMetrics, fcall.invoked),
                                    Measured(fcall.op, inferenceTime)))
            /\ fcall' = [fcall EXCEPT !.result = "returned"]
       ELSE /\ fcall' = [fcall EXCEPT !.result = "thrown"]
            /\ UNCHANGED performanceMetrics
    /\ UNCHANGED <<loadedModels, loads, lcall>>
    /\ UNCHANGED notMetrics

NextMetrics ==
    \/ \E kind \in MetricKinds, outcome \in LoadOutcomes, loadTime \in LoadTimes :
           IdgafLoadModel(kind, outcome, loadTime)
    \/ \E id \in 1..MaxLoads : IdgafUnloadModel(id)
    \/ \E op \in Operations : ModalityCall(op)
    \/ \E outcome \in {"fulfilled", "rejected"}, inferenceTime \in InferenceTimes :
           ClosureSettles(outcome, inferenceTime)

(***************************************************************************)
(* Specifications                                                          *)
(***************************************************************************)
InitCache == CacheInit /\ BPParked /\ TBParked /\ RetryInit /\ RegistryInit /\ SCInit /\ CancellationInit /\ TimeoutInit /\ FacadeInit /\ AdaptersInit /\ RegistryUnloadInit /\ TBQueryInit /\ MetricsInit /\ ConcInit /\ TimeoutCleanupInit

SpecCache == InitCache /\ [][NextCache]_vars

SpecCacheSequential == InitCache /\ [][NextCacheSequential]_vars

SpecCacheFailing == InitCache /\ [][NextCacheFailing]_vars

SpecCacheOverlap == InitCache /\ [][NextCacheOverlap]_vars

\* the cache with getStats, clear and prune among its calls
SpecCacheAdmin == InitCache /\ [][NextCacheAdmin]_vars

InitBP == BPInit /\ CacheInit /\ TBParked /\ RetryInit /\ RegistryInit /\ SCInit /\ CancellationInit /\ TimeoutInit /\ FacadeInit /\ AdaptersInit /\ RegistryUnloadInit /\ TBQueryInit /\ MetricsInit /\ ConcInit /\ TimeoutCleanupInit

SpecBackpressure == InitBP /\ [][NextBP]_vars

\* release() keeps being called
SpecBackpressureFair == SpecBackpressure /\ WF_vars(Release)

InitTB == TBInit /\ CacheInit /\ BPParked /\ RetryInit /\ RegistryInit /\ SCInit /\ CancellationInit /\ TimeoutInit /\ FacadeInit /\ AdaptersInit /\ RegistryUnloadInit /\ TBQueryInit /\ MetricsInit /\ ConcInit /\ TimeoutCleanupInit

SpecTokenBuffer == InitTB /\ [][NextTB]_vars

SpecTokenBufferQuery == InitTB /\ [][NextTBQuery]_vars

InitRetry == RetryInit /\ CacheInit /\ BPParked /\ TBParked /\ RegistryInit /\ SCInit /\ CancellationInit /\ TimeoutInit /\ FacadeInit /\ AdaptersInit /\ RegistryUnloadInit /\ TBQueryInit /\ MetricsInit /\ ConcInit /\ TimeoutCleanupInit

SpecRetry == InitRetry /\ [][NextRetry]_vars

InitRegistry == RegistryInit /\ CacheInit /\ BPParked /\ TBParked /\ RetryInit /\ SCInit /\ CancellationInit /\ TimeoutInit /\ FacadeInit /\ AdaptersInit /\ RegistryUnloadInit /\ TBQueryInit /\ MetricsInit /\ ConcInit /\ TimeoutCleanupInit

SpecRegistry == InitRegistry /\ [][NextRegistry]_vars

SpecRegistryModels == InitRegistry /\ [][NextRegistryModels]_vars

SpecRegistryUnload == InitRegistry /\ [][NextRegistryUnload]_vars

InitSC == SCInit /\ CacheInit /\ BPParked /\ TBParked /\ RetryInit /\ RegistryInit /\ CancellationInit /\ TimeoutInit /\ FacadeInit /\ AdaptersInit /\ RegistryUnloadInit /\ TBQueryInit /\ MetricsInit /\ ConcInit /\ TimeoutCleanupInit

SpecStreamController == InitSC /\ [][NextSC]_vars

\* the consumer keeps reading while the stream is readable
SpecStreamControllerFair == SpecStreamController /\ WF_vars(Read)

InitCancellation ==
    /\ CancellationInit /\ CacheInit /\ BPParked /\ TBParked /\ RetryInit /\ RegistryInit
    /\ SCInit /\ TimeoutInit /\ FacadeInit /\ AdaptersInit /\ RegistryUnloadInit /\ TBQueryInit /\ MetricsInit /\ ConcInit /\ TimeoutCleanupInit

SpecCancellation == InitCancellation /\ [][NextCancellation]_vars

InitTimeout ==
    /\ TimeoutInit /\ CacheInit /\ BPParked /\ TBParked /\ RetryInit /\ RegistryInit
    /\ SCInit /\ CancellationInit /\ FacadeInit /\ AdaptersInit /\ RegistryUnloadInit /\ TBQueryInit /\ MetricsInit /\ ConcInit /\ TimeoutCleanupInit

SpecTimeout == InitTimeout /\ [][NextTimeout]_vars

SpecTimeoutCleanup == InitTimeout /\ [][NextTimeoutCleanup]_vars

\* an armed timer fires unless it is cleared, and a generator.return() that can be
\* served is served; a step of the wrapped generator may take for ever
SpecTimeoutFair == SpecTimeout /\ WF_vars(TimerFires) /\ WF_vars(ReturnSettles)

InitFacade ==
    /\ FacadeInit /\ CacheInit /\ BPParked /\ TBParked /\ RetryInit /\ RegistryInit
    /\ SCInit /\ CancellationInit /\ TimeoutInit /\ AdaptersInit /\ RegistryUnloadInit /\ TBQueryInit /\ MetricsInit /\ ConcInit /\ TimeoutCleanupInit

SpecFacade == InitFacade /\ [][NextFacade]_vars

SpecMetrics == InitFacade /\ [][NextMetrics]_vars

InitAdapters ==
    /\ AdaptersInit /\ CacheInit /\ BPParked /\ TBParked /\ RetryInit /\ RegistryInit
    /\ SCInit /\ CancellationInit /\ TimeoutInit /\ FacadeInit /\ RegistryUnloadInit /\ TBQueryInit /\ MetricsInit /\ ConcInit /\ TimeoutCleanupInit

SpecAdapters == InitAdapters /\ [][NextAdapters]_vars

(***************************************************************************)
(* Properties of LRUCache                                                  *)
(***************************************************************************)

\* C1 (eviction bound): whenever no cache call is in flight, that is after every
\* set call has returned or thrown, the sizes of the entries in the cache add up to
\* at most maxSize.
EvictionBound == cpc = "idle" => SumSizes(cache) <= maxSize

\* a set call that had to evict has returned and left the cache exactly full
EvictionBoundWitness ==
    /\ cpc = "idle"
    /\ cret = Ret("ok")
    /\ evicted # <<>>
    /\ SumSizes(cache) = maxSize

\* C2 (LRU order): the entry set evicts is one whose most recent access (insertion
\* by set, hit by get) is not later than the most recent access of any entry
\* present at that moment.
LRUOrder ==
    [][(cpc = "set_evict" /\ cpc' = "set_loop") =>
         /\ evicted' = Append(evicted, cframe.victim)
         /\ MapHas(cache, cframe.victim)
         /\ ~MapHas(cache', cframe.victim)
         /\ \A j \in 1..Len(cache) :
               MapGet(cache, cframe.victim).accessedAt <= cache[j].accessedAt]_vars

\* A, B, C were in the cache, A was read by get, and the insert of D evicted B alone
LRUOrderWitness ==
    /\ cpc = "idle"
    /\ cret = Ret("ok")
    /\ evicted = <<"B">>
    /\ Len(cache) = 3
    /\ cache[1].key = "C" /\ cache[2].key = "A" /\ cache[3].key = "D"
    /\ cache[2].hitCount = 2
    /\ cache[1].lastAccessed < cache[2].lastAccessed

\* C3 (unload before evict): an entry leaves the Map, by eviction or by delete, only
\* in a step taken while exactly one adapter unload is outstanding, that unload is
\* for the entry's model id and has completed; and no second unload is ever
\* outstanding beside it.
UnloadBeforeEvict ==
    /\ [](Len(inflight) <= 1)
    /\ [][\A i \in 1..Len(cache) :
            ~MapHas(cache', cache[i].key) =>
                /\ cpc \in {"set_evict", "delete"}
                /\ Len(inflight) = 1
                /\ inflight[1].id = cache[i].model
                /\ inflight[1].why \in {"evict", "delete"}
                /\ inflight[1].done
                /\ inflight' = <<>>]_vars

\* a set call has evicted two entries, each after its unload
UnloadBeforeEvictWitness ==
    /\ cpc = "set_loop"
    /\ Len(evicted) = 2
    /\ inflight = <<>>

\* C14 (oversized insert): with adapter unloads succeeding, a set(key, model) whose
\* model is larger than maxSize ends with the capacity-exceeded error whenever it
\* ends; when it has ended no entry holds that model and currentSize is the sum of
\* the sizes of the entries present; and no entry ever holds a model larger than
\* maxSize.
OversizedInsert ==
    /\ [](\A i \in 1..Len(cache) : SizeOf(cache[i].model) <= maxSize)
    /\ [][\A k \in Keys, m \in Models :
            ( /\ SizeOf(m) > maxSize
              /\ \/ CacheSet(k, m)
                 \/ cframe.key = k /\ cframe.model = m /\ (SetLoop \/ SetReplaceResume)
              /\ cpc' = "idle" ) =>
                  /\ cret' = Ret("capacity_exceeded")
                  /\ \A i \in 1..Len(cache') : cache'[i].model # m
                  /\ currentSize' = SumSizes(cache')]_vars

\* a set of a model larger than the cache has failed after evicting two entries
OversizedInsertWitness ==
    /\ cpc = "idle"
    /\ cret = Ret("capacity_exceeded")
    /\ Len(evicted) = 2
    /\ cache = <<>>

\* C15 (one live instance per key): with adapter unloads succeeding, whenever a
\* set(key, m2) returns, there is exactly one entry for key, it holds m2, and
\* currentSize is the sum of the sizes of the entries present, so it counts m2 and no
\* longer the model replaced; and if key still maps to a model m1 when m2 is
\* installed, the one unload in flight is the unload of m1, invoked by this set, and
\* it has completed.
OneInstancePerKey ==
    [][\A k \in Keys, m \in Models :
          ( /\ \/ CacheSet(k, m)
               \/ cframe.key = k /\ cframe.model = m /\ (SetLoop \/ SetReplaceResume)
            /\ cpc' = "idle"
            /\ cret' = Ret("ok") ) =>
                /\ Cardinality({i \in 1..Len(cache') : cache'[i].key = k}) = 1
                /\ MapGet(cache', k).model = m
                /\ currentSize' = SumSizes(cache')
                /\ MapHas(cache, k) =>
                      /\ cpc = "set_replace"
                      /\ inflight = <<[id |-> MapGet(cache, k).model, why |-> "replace",
                                       done |-> TRUE]>>]_vars

\* set("A", model 2) while "A" maps to model 1: the unload of model 1 has completed
\* and model 2 is about to be installed
OneInstancePerKeyWitness ==
    /\ cpc = "set_replace"
    /\ cframe.key = "A"
    /\ cframe.model = 2
    /\ MapGet(cache, "A").model = 1
    /\ inflight = <<[id |-> 1, why |-> "replace", done |-> TRUE]>>

\* C24 (minimal eviction): when a set call ends, every entry it evicted from under
\* another key was needed out of the way, that is, the entries left under other keys
\* together with the evicted entry and the incoming model exceed maxSize.
MinimalEviction ==
    [][(cpc \in {"set_loop", "set_replace"} /\ cpc' = "idle") =>
          \A j \in 1..Len(evicted') :
              evicted'[j] # cframe.key =>
                  SumSizes(SelectSeq(cache', LAMBDA e : e.key # cframe.key))
                      + evictedSizes'[j] + SizeOf(cframe.model) > maxSize]_vars

\* C32 (a rejected insert has no side effect): when a set call has failed with the
\* capacity-exceeded error, the call has evicted no entry and so invoked no adapter
\* unload: every entry present before the call is still present and currentSize is
\* what it was.
RejectedInsertNoEffect ==
    (cpc = "idle" /\ cret = Ret("capacity_exceeded")) => evicted = <<>>

(***************************************************************************)
(* Properties of BackpressureHandler                                       *)
(***************************************************************************)

\* C5 (backpressure bound): pendingCount never exceeds maxPending.
BackpressureBound == pending <= maxPending

\* every permit is held, a caller waits, and a release() has already handed one over
BackpressureBoundWitness ==
    /\ maxPending = 2
    /\ pending = maxPending
    /\ waitingResolvers # <<>>
    /\ resumed # <<>>

\* C6 (blocking and wake-up): an acquire() made while pendingCount = maxPending is
\* suspended; a suspended acquire() is resolved only by a release(); every release()
\* resolves exactly the one oldest suspended acquire() when there is one and nothing
\* otherwise; and while release() keeps being called every suspended acquire() is
\* eventually resolved.
BackpressureWakeUp ==
    /\ [][(acquires' # acquires /\ pending = maxPending) =>
            /\ acquires' \notin resolved'
            /\ waitingResolvers' = Append(waitingResolvers, acquires')]_vars
    /\ [][(resolved' # resolved /\ (resolved' \ resolved) \cap
                {waitingResolvers[i] : i \in 1..Len(waitingResolvers)} # {}) =>
            bpOp' = "release"]_vars
    /\ [][bpOp' = "release" =>
            IF waitingResolvers # <<>>
            THEN /\ resolved' = resolved \cup {Head(waitingResolvers)}
                 /\ Head(waitingResolvers) \notin resolved
                 /\ waitingResolvers' = Tail(waitingResolvers)
                 /\ Len(resumed') = Len(resumed) + 1
            ELSE /\ resolved' = resolved
                 /\ waitingResolvers' = waitingResolvers
                 /\ resumed' = resumed]_vars
    /\ \A t \in 1..MaxAcquires :
         (t \in {waitingResolvers[i] : i \in 1..Len(waitingResolvers)}) ~> (t \in resolved)

\* two suspended acquire() calls have both been resolved, by two release() calls
BackpressureWakeUpWitness ==
    /\ Len(resumed) = 2
    /\ waitingResolvers = <<>>
    /\ pending = maxPending

\* C7 (FIFO hand-off): suspended callers are resumed in the order of their acquire()
\* calls; a release() made while callers wait resolves the oldest of them and leaves
\* pendingCount unchanged; and whenever a caller waits, pendingCount = maxPending.
BackpressureFIFO ==
    /\ [](/\ \A i, j \in 1..Len(resumed) : i < j => resumed[i] < resumed[j]
          /\ \A i \in 1..Len(resumed), j \in 1..Len(waitingResolvers) :
                resumed[i] < waitingResolvers[j]
          /\ \A i, j \in 1..Len(waitingResolvers) :
                i < j => waitingResolvers[i] < waitingResolvers[j]
          /\ (Len(waitingResolvers) > 0 => pending = maxPending))
    /\ [][(bpOp' = "release" /\ waitingResolvers # <<>>) =>
            /\ pending' = pending
            /\ resumed' = Append(resumed, Head(waitingResolvers))]_vars

\* two callers waited, and the one that called acquire() first has been resumed first
BackpressureFIFOWitness ==
    /\ Len(resumed) = 1
    /\ Len(waitingResolvers) = 1
    /\ resumed[1] < waitingResolvers[1]
    /\ pending = maxPending

\* C37 (pendingCount counts held permits): pendingCount is never negative, also after
\* a release() that no granted acquire() preceded, and pendingCount, the number of
\* acquires granted less the number of release() calls, never exceeds maxPending.
PendingCountsPermits ==
    /\ pending >= 0
    /\ pending <= maxPending

(***************************************************************************)
(* Properties of TokenBuffer                                               *)
(***************************************************************************)

\* the last n elements of a
LastOf(a, n) == SubSeq(a, Len(a) - n + 1, Len(a))

\* the strings of a one after the other
RECURSIVE Concatenation(_)
Concatenation(a) == IF a = <<>> THEN "" ELSE Head(a) \o Concatenation(Tail(a))

\* C8 (TokenBuffer FIFO): after k adds to a buffer of capacity c >= 1 the buffer holds
\* exactly the last min(k, c) tokens in arrival order, never more than c; an add to a
\* full buffer drops the single oldest token; getText() is the retained tokens one
\* after the other.
TokenBufferFIFO ==
    /\ [](LET k == Len(added)
              n == IF k < tbMaxSize THEN k ELSE tbMaxSize
          IN /\ buffer = LastOf(added, n)
             /\ Len(buffer) <= tbMaxSize
             /\ GetText(buffer) = Concatenation(LastOf(added, n)))
    /\ [][(Len(added') = Len(added) + 1 /\ Len(buffer) = tbMaxSize) =>
            buffer' = Append(Tail(buffer), added'[Len(added')])]_vars

\* capacity 3, tokens A, B, C, D: getText() is "BCD"
TokenBufferFIFOWitness ==
    /\ tbMaxSize = 3
    /\ added = <<"A", "B", "C", "D">>
    /\ GetText(buffer) = "BCD"

\* C27 (getLastN): for every n >= 0, getLastN(n) returns the last min(n, length) tokens
\* of the buffer in arrival order, none for n = 0 and all for n beyond the length, and
\* leaves the buffer as it was.
GetLastNExact ==
    [][\A n \in 0..MaxN : TBGetLastN(n) =>
          LET len == Len(buffer)
              m == IF n < len THEN n ELSE len
          IN /\ tbLastN'.result = SubSeq(buffer, len - m + 1, len)
             /\ buffer' = buffer]_vars

(***************************************************************************)
(* Properties of ErrorHandler.withRetry                                    *)
(***************************************************************************)

\* C4 (retry semantics): when withRetry has finished with an operation that throws
\* ordinary Errors, then either the operation was to succeed within maxRetries + 1
\* calls and withRetry returned its value after exactly fails + 1 calls, or the
\* operation has been called exactly maxRetries + 1 times and the error it threw
\* last is the one propagated.
RetrySemantics ==
    (rpc = "done" /\ plan.error.kind = "Error") =>
        IF plan.fails # Forever /\ plan.fails <= rargs.maxRetries
        THEN rresult.tag = "value" /\ calls = plan.fails + 1
        ELSE /\ rresult = [tag |-> "error", error |-> plan.error]
             /\ calls = rargs.maxRetries + 1

SelCandidates ==
    { adapters[i] : i \in { j \in 1..Len(adapters) :
                              CanHandle(adapters[j], selArgs.modelPath, selArgs.modelInfo) } }

SelScore(a) == Score(a, selArgs.modelInfo, selArgs.hardware)

\* the candidates with the maximal score
SelBest == { a \in SelCandidates : \A b \in SelCandidates : SelScore(b) <= SelScore(a) }

\* the number of the registerAdapter call that registered this adapter object first
FirstRegistered(a) ==
    CHOOSE i \in 1..Len(registered) :
        registered[i] = a.id /\ \A j \in 1..(i - 1) : registered[j] # a.id

\* the number of the first registerAdapter call made with this format tag
FormatFirstRegistered(format) ==
    CHOOSE i \in 1..Len(registered) :
        /\ AdapterById(registered[i]).format = format
        /\ \A j \in 1..(i - 1) : AdapterById(registered[j]).format # format

\* C9 as stated (adapter selection): selectBestAdapter returns null exactly when no
\* registered adapter can handle the model; otherwise it returns a candidate of
\* maximal score, and among the candidates of maximal score the one that was
\* registered first.
AdapterSelectionFirstRegistered ==
    selected.tag # "none" =>
        /\ selected.tag = "null" <=> SelCandidates = {}
        /\ selected.tag = "adapter" =>
              /\ selected.adapter \in SelBest
              /\ \A b \in SelBest : FirstRegistered(selected.adapter) <= FirstRegistered(b)

\* C9 amended (adapter selection): selectBestAdapter returns null exactly when no
\* registered adapter can handle the model; otherwise it returns a candidate of
\* maximal score, and among the candidates of maximal score the one whose format tag
\* was registered first (an adapter registered under a format tag that is already in
\* the registry replaces the earlier adapter and takes over its place in the order).
AdapterSelection ==
    selected.tag # "none" =>
        /\ selected.tag = "null" <=> SelCandidates = {}
        /\ selected.tag = "adapter" =>
              /\ selected.adapter \in SelBest
              /\ \A b \in SelBest :
                    FormatFirstRegistered(selected.adapter.format)
                        <= FormatFirstRegistered(b.format)

\* a selection among two candidates of equal, maximal score, one of which replaced an
\* adapter registered before the other
AdapterSelectionWitness ==
    /\ registered = <<1, 4, 3>>
    /\ selArgs.modelPath = PathGGUF
    /\ ~selArgs.modelInfo.defined
    /\ SelBest = {GGUFAdapter(3), CustomAdapter(4, "onnx", TRUE, TRUE, 1)}
    /\ selected = [tag |-> "adapter", adapter |-> GGUFAdapter(3)]

(***************************************************************************)
(* Properties of StreamController                                          *)
(***************************************************************************)
\* the chunks handed to the stream and not discarded: those the consumer has read
\* followed by those on the queue
Enqueued == received \o queue

\* C10 (push after close): a push made after close(), after error() or after the
\* consumer cancelled the stream returns false, enqueues nothing and does not throw;
\* a push made while the controller is open returns true and enqueues the value.
PushContract ==
    [][pushes' = pushes + 1 =>
          IF open
          THEN /\ scRet' = "true"
               /\ \E value \in Chunks : Enqueued' = Append(Enqueued, value)
          ELSE /\ scRet' = "false"
               /\ queue' = queue
               /\ received' = received
               /\ readRequests' = readRequests]_vars

\* a push has been accepted, the consumer has then cancelled the stream, and a later
\* push has been refused
PushContractWitness ==
    /\ pushes = 2
    /\ ~open
    /\ streamState = "closed"
    /\ ~closeRequested
    /\ scRet = "false"
    /\ queue = <<>>

\* StreamController.isClosed
IsClosed == closed

\* C11 (terminal states are absorbing): once the controller has left Open, by
\* close(), error() or a cancel of the consumer, isClosed is true and never returns
\* to false, and every later close() or error() call returns without throwing and
\* changes nothing of the controller or of its stream.
TerminalAbsorbing ==
    /\ [](~open => IsClosed)
    /\ [][IsClosed => IsClosed']_vars
    /\ [][(~open /\ scOp' \in {"close", "error"}) =>
              /\ scRet' = "void"
              /\ UNCHANGED <<closed, controller, streamState, closeRequested, queue,
                             readRequests, received>>]_vars

\* error() has been called after a close() that left chunks on the queue: the stream
\* is still readable, not errored, and the chunks are still there
TerminalAbsorbingWitness ==
    /\ scOp = "error"
    /\ closeRequested
    /\ streamState = "readable"
    /\ queue # <<>>
    /\ IsClosed

IsPrefix(a, b) == Len(a) <= Len(b) /\ SubSeq(b, 1, Len(a)) = a

\* C17 as stated (stream delivery): the consumer receives exactly the values for which
\* push returned true, each once and in push order - what it has read is always a
\* prefix of them and, as it keeps reading, it gets every one of them - and it
\* observes end-of-stream only after all of them have been read.
StreamDeliveryAll ==
    /\ [](IsPrefix(received, accepted))
    /\ [](streamState = "closed" => received = accepted)
    /\ \A n \in 1..MaxPushes : (Len(accepted) >= n) ~> (Len(received) >= n)

\* C17 amended (stream delivery): what the consumer has read is always a prefix, in
\* push order, of the values for which push returned true; unless error() is called
\* or the consumer cancels, a consumer that keeps reading gets every one of them, and
\* a stream ended by close() shows end-of-stream only after all of them have been
\* read. error() and cancel discard the values still on the queue.
StreamDelivery ==
    /\ [](IsPrefix(received, accepted))
    /\ []((streamState = "closed" /\ ~consumerCancelled) => received = accepted)
    /\ \A n \in 1..MaxPushes :
          (Len(accepted) >= n) ~>
              (Len(received) >= n \/ streamState = "errored" \/ consumerCancelled)

\* three values were pushed, then close() was called, and the consumer has read the
\* three values and reached end-of-stream
StreamDeliveryWitness ==
    /\ accepted = <<"a", "b", "a">>
    /\ received = accepted
    /\ closeRequested
    /\ streamState = "closed"
    /\ ~consumerCancelled
    /\ scOp = "read"

(***************************************************************************)
(* Properties of StreamCancellation                                        *)
(***************************************************************************)
\* StreamCancellation.isCancelled
IsCancelled == cancelled

\* the invocations of the callback registered as number id
InvocationsOf(id) == { i \in 1..Len(cnInvocations) : cnInvocations[i].id = id }

\* C12 (notification exactly once): isCancelled is false before the first cancel()
\* and true ever after; before the first cancel() no registered callback has been
\* invoked, and from the first cancel() on every registered callback has been
\* invoked exactly once: during the first cancel() if it was registered before, and
\* during the call that registered it otherwise; a second cancel() invokes no
\* callback and changes nothing.
CancellationOnce ==
    /\ [](IsCancelled <=> firstCancel # 0)
    /\ [](\A id \in 1..Len(cnRegistered) :
             IF IsCancelled
             THEN /\ Cardinality(InvocationsOf(id)) = 1
                  /\ \A i \in InvocationsOf(id) :
                        cnInvocations[i].call =
                            IF cnRegistered[id].call < firstCancel
                            THEN firstCancel ELSE cnRegistered[id].call
             ELSE InvocationsOf(id) = {})
    /\ [][(IsCancelled /\ cnCalls' = cnCalls + 1 /\ cnOp' = "cancel") =>
              /\ cnRet' = "void"
              /\ UNCHANGED <<cancelled, onCancelCallbacks, cnRegistered, cnInvocations>>]_vars

\* a callback registered before the first cancel() registers another one when it is
\* notified, a callback is registered after the cancel(), and cancel() is called again
CancellationOnceWitness ==
    /\ cnCalls = 4
    /\ firstCancel = 2
    /\ cnOp = "cancel"
    /\ Len(cnRegistered) = 3
    /\ cnRegistered[1].kind = "registers"
    /\ cnRegistered[3].kind = "throws"
    /\ Len(cnInvocations) = 3

(***************************************************************************)
(* Properties of streamWithTimeout                                         *)
(***************************************************************************)
\* C13 (timeout): whenever the timer of a round fires before the step of the wrapped
\* generator has completed, the consumer eventually observes the timeout error, even
\* if the step never completes, and generator.return() has been called before the
\* timeout error reaches the consumer.
TimeoutObserved ==
    /\ [](wResult = "timeout" => returnInvoked)
    /\ timedOut ~> (wResult = "timeout")

\* C28 (the timeout bounds each step): no timer is armed while the wrapper is
\* suspended at its yield, that is between the delivery of one item and the
\* consumer's next request, nor after the wrapper has finished; as long as no timer
\* has fired, the consumer has received exactly the items the producer has yielded,
\* in order; and when the producer ends without a timer having fired, the wrapper
\* ends normally with all items delivered.
TimeoutPerStep ==
    /\ wpc \in {"suspended", "done"} => ~timerPending
    /\ ~timedOut => wReceived = produced
    /\ (wpc = "done" /\ wCause = "end" /\ ~timedOut) =>
           wResult = "done" /\ wReceived = produced

\* the producer has yielded MaxItems items and has ended, no timer has fired, and the
\* wrapper has delivered all the items and has ended normally
TimeoutPerStepWitness ==
    /\ wpc = "done"
    /\ wCause = "end"
    /\ ~timedOut
    /\ Len(produced) = MaxItems
    /\ wReceived = produced
    /\ wResult = "done"
    /\ ~timerPending

\* how the wrapper ends for the cause it left its loop for
EndsAsCaused ==
    wpc = "done" =>
        /\ wCause \in {"end", "return", "error", "timeout"}
        /\ wCause \in {"error", "timeout"} => wResult = wCause
        /\ wCause \in {"end", "return"} => wResult = "done"

\* the body of the wrapper has begun: generator.next() has been called
WrapperStarted == genState # "suspended" \/ produced # <<>>

\* C38 (streamWithTimeout always cleans up), as stated: however the wrapper ends, by
\* the end of the producer, by a return() of the consumer, by an error of the producer
\* or by a timeout, generator.return() has been invoked and no timer is armed; and the
\* producer's error or the timeout error is thrown to the consumer also when
\* generator.return() rejects.
CleanupOnEveryEnd ==
    /\ wpc \in {"returning", "done"} => (returnInvoked /\ ~timerPending)
    /\ EndsAsCaused

\* C38 (streamWithTimeout always cleans up), amended: once the wrapper has left the
\* loop it entered at the consumer's first next(), generator.return() has been invoked
\* and no timer is armed, and the producer's error or the timeout error is thrown to
\* the consumer also when generator.return() rejects; a wrapper ended by return()
\* before its first next() has called nothing on the producer and armed no timer.
CleanupAlways ==
    /\ (wpc \in {"returning", "done"} /\ WrapperStarted) => (returnInvoked /\ ~timerPending)
    /\ (wpc = "done" /\ ~WrapperStarted) => (~returnInvoked /\ ~timerPending)
    /\ EndsAsCaused

\* the producer has thrown, generator.return() has rejected, and the consumer has got
\* the producer's error
CleanupAlwaysWitness ==
    /\ wpc = "done"
    /\ wCause = "error"
    /\ returnRejected
    /\ wResult = "error"
    /\ returnInvoked
    /\ ~timerPending

(***************************************************************************)
(* Properties of IDGAF                                                     *)
(***************************************************************************)
\* the loaded models of the type the last modality call asked for
FcallCandidates ==
    { loadedModels[i] : i \in { j \in 1..Len(loadedModels) :
                                  loadedModels[j].type = TypeOfOperation(fcall.op) } }

\* the one of them that was registered first (ids are given in registration order)
FcallFirst == CHOOSE model \in FcallCandidates : \A other \in FcallCandidates : model.id <= other.id

\* C16 (facade dispatch): a modality call uses the first model, in registration
\* order, among the loaded models whose type is the one the call asks for: if there
\* is none it fails with "No ... models loaded"; if that first model lacks the
\* operation closure it fails with "Model does not support ...", whatever later
\* models have; in both failures no operation closure is invoked; otherwise the
\* closure of that first model is invoked.
FacadeDispatch ==
    fcall.op # "none" =>
        IF FcallCandidates = {}
        THEN /\ fcall.result = "error"
             /\ fcall.message = NoModelsMessage(TypeOfOperation(fcall.op))
             /\ fcall.invoked = 0
        ELSE IF fcall.op \notin FcallFirst.ops
        THEN /\ fcall.result = "error"
             /\ fcall.message = UnsupportedMessage(fcall.op)
             /\ fcall.invoked = 0
        ELSE /\ fcall.result = "invoked"
             /\ fcall.invoked = FcallFirst.id

\* chat() fails although the second llm model has the chat closure: the first has not
FacadeDispatchWitness ==
    /\ fcall.op = "chat"
    /\ fcall.message = "Model does not support chat completion"
    /\ Len(loadedModels) = 2
    /\ "chat" \notin loadedModels[1].ops
    /\ loadedModels[2].type = "llm"
    /\ "chat" \in loadedModels[2].ops

(***************************************************************************)
(* Properties of the adapters' operation closures                          *)
(***************************************************************************)

\* C19 (closures fail after unload): a closure body of a LoadedModel that runs after
\* the owning adapter's unloadModel(id) completed ends with the "not found" error and
\* does not reach inference; a LoadedModel whose id was not unloaded keeps its entry,
\* whichever other ids are unloaded, and a closure body of such a model never ends
\* with the "not found" error.
ClosuresFailAfterUnload ==
    /\ closureCall.afterUnload => closureCall.outcome = "not_found"
    /\ \A m \in issued : m.id \notin unloadedIds => HasEntry(EntriesOf(m), m.id)
    /\ (closureCall # NoClosureCall /\ ~closureCall.afterUnload) =>
           closureCall.outcome # "not_found"

\* two models are loaded, the first one is unloaded, the other is still loaded, and
\* the generator of the first's generate closure, when started, threw "not found"
ClosuresFailAfterUnloadWitness ==
    /\ Cardinality(issued) = 2
    /\ unloadedIds = {1}
    /\ \E m \in issued : m.id = 2 /\ HasEntry(EntriesOf(m), 2)
    /\ closureCall = [id |-> 1, op |-> "generate", afterUnload |-> TRUE,
                      outcome |-> "not_found"]

HitRateOfGets ==
    [][CacheGetStats =>
          /\ cstats'.hitRate = (IF TotalHitsOfGets(cache) > 0 THEN 1 ELSE 0)
          /\ (cache = <<>> => cstats'.totalSize = 0 /\ cstats'.entryCount = 0)]_vars

\* C21 (cache hit rate), amended: getStats returns hitRate 1 when the cache holds at
\* least one entry, whether or not a get has found it (set gives every entry the hit
\* count 1), and 0 when the cache is empty; on a cache without entries it returns
\* totalSize 0 and entryCount 0.
HitRateDegenerate ==
    [][CacheGetStats =>
          /\ cstats'.hitRate = (IF cache # <<>> THEN 1 ELSE 0)
          /\ (cache = <<>> => cstats'.totalSize = 0 /\ cstats'.entryCount = 0)]_vars

\* getStats has reported hitRate 1 for a cache whose only entry was inserted by set
\* and never found by a get
HitRateDegenerateWitness ==
    /\ cstats = [tag |-> "stats", totalSize |-> BytesPerMB, entryCount |-> 1, hitRate |-> 1]
    /\ Len(cache) = 1
    /\ cache[1].gets = 0
    /\ cpc = "idle"

(***************************************************************************)
(* Properties of ModelRegistry.unloadModel                                 *)
(***************************************************************************)

\* C22 (registry unload ordering): a model leaves the loaded models only when an
\* unloadModel call for its id has seen the adapter's unload complete; a call for a
\* tracked id has invoked the adapter's unload exactly once; a call for an id that is
\* not tracked invokes no adapter, has returned without an error and leaves the
\* loaded models as they were.
RegistryUnloadOrder ==
    /\ [][\A id \in 1..MaxLoads :
              (IsTracked(loadedModels, id) /\ ~IsTracked(loadedModels', id)) =>
                  \E i \in 1..Len(rcalls) :
                      rcalls[i].id = id /\ rcalls[i].state = "adapter_done"]_vars
    /\ [](\A i \in 1..Len(rcalls) :
              IF rcalls[i].tracked THEN rcalls[i].invocations = 1
              ELSE rcalls[i].invocations = 0 /\ rcalls[i].state = "returned")
    /\ [][(Len(rcalls') > Len(rcalls) /\ ~rcalls'[Len(rcalls')].tracked) =>
              loadedModels' = loadedModels]_vars

\* model 1 was unloaded by the first call, after its adapter had completed, and a
\* second unloadModel(1) has returned without invoking an adapter; model 2 is loaded
RegistryUnloadOrderWitness ==
    /\ Len(rcalls) = 2
    /\ rcalls[1] = [id |-> 1, tracked |-> TRUE, invocations |-> 1, state |-> "returned"]
    /\ rcalls[2] = [id |-> 1, tracked |-> FALSE, invocations |-> 0, state |-> "returned"]
    /\ ~IsTracked(loadedModels, 1)
    /\ IsTracked(loadedModels, 2)

\* C23 (cache size accounting): whenever no call is in flight, after any sequence of
\* set, get, delete, prune and clear calls, currentSize is the sum of the sizes of the
\* entries in the cache; currentSize is never negative; getStats returns that sum as
\* totalSize and the number of distinct keys as entryCount.
SizeAccounting ==
    /\ [](cpc = "idle" => currentSize = SumSizes(cache))
    /\ [](currentSize >= 0)
    /\ [][CacheGetStats =>
              /\ cstats'.totalSize = SumSizes(cache)
              /\ cstats'.totalSize >= 0
              /\ cstats'.entryCount = Cardinality(KeysOf(cache))]_vars

\* getStats has reported 3 MB in two entries for a cache that holds a 1 MB and a 2 MB
\* entry, one of which a get had found before
SizeAccountingWitness ==
    /\ cstats = [tag |-> "stats", totalSize |-> 3 * BytesPerMB, entryCount |-> 2, hitRate |-> 1]
    /\ Len(cache) = 2
    /\ SumSizes(cache) = 3 * BytesPerMB
    /\ cache[1].gets = 1
    /\ cret.tag = "model"

\* C25 (clear is best-effort and total): while clear waits, the adapter's unload has
\* been invoked exactly once for each entry that was in the cache at the call; when
\* clear goes on it returns without an error, whichever of the unloads rejected, and
\* leaves the cache without entries and currentSize 0.
ClearTotal ==
    /\ [](cpc = "clear" =>
              /\ Len(inflight) = Len(cbefore.map)
              /\ cunloads = [i \in 1..Len(cbefore.map) |-> cbefore.map[i].model]
              /\ \A i \in 1..Len(inflight) :
                     inflight[i].id = cbefore.map[i].model /\ inflight[i].why = "clear")
    /\ [][cpc = "clear" =>
              \/ cpc' = "clear"
              \/ /\ cpc' = "idle"
                 /\ cret' = Ret("ok")
                 /\ cache' = <<>>
                 /\ currentSize' = 0]_vars

\* a clear of a cache with two entries has returned although both unloads rejected,
\* and the cache is empty
ClearTotalWitness ==
    /\ clast = [call |-> "clear", returned |-> 0, entries |-> 2, rejected |-> 2]
    /\ cpc = "idle"
    /\ cret = Ret("ok")
    /\ cache = <<>>
    /\ currentSize = 0

\* C26 (prune): a prune(maxAge) call that returns has removed from the cache exactly
\* the entries whose age at the call, now - lastAccessed, exceeded maxAge, has left the
\* others as they were, has returned the number of removed entries, has invoked the
\* adapter's unload once for each removed entry, and has reduced currentSize by the
\* sizes of the removed entries.
PruneExact ==
    /\ [][\A maxAge \in MaxAges : (CachePrune(maxAge) /\ cpc' = "idle") =>
              /\ \A i \in 1..Len(cache) : ~(now - cache[i].lastAccessed > maxAge)
              /\ cache' = cache
              /\ currentSize' = currentSize
              /\ clast'.returned = 0]_vars
    /\ [][(PruneResume /\ cpc' = "idle") =>
              LET old == cbefore.map
                  gone == SelectSeq(old, LAMBDA e : cprune.at - e.lastAccessed > cprune.maxAge)
                  kept == SelectSeq(old, LAMBDA e : ~(cprune.at - e.lastAccessed > cprune.maxAge))
              IN /\ cache' = kept
                 /\ clast'.returned = Len(gone)
                 /\ cunloads = [i \in 1..Len(gone) |-> gone[i].model]
                 /\ currentSize' = cbefore.size - SumSizes(gone)]_vars

\* a prune of a cache with two entries has removed the one older than maxAge and has
\* kept the other
PruneExactWitness ==
    /\ clast = [call |-> "prune", returned |-> 1, entries |-> 2, rejected |-> 0]
    /\ cpc = "idle"
    /\ Len(cache) = 1
    /\ cache[1].lastAccessed = MaxTime

(***************************************************************************)
(* Properties of IDGAF.loadModel and the performance metrics               *)
(***************************************************************************)
\* the fields a successful call of the operation measures
MeasuredFields(op) ==
    IF op \in {"generate", "chat"}
    THEN {"inferenceTimeMs", "tokensPerSecond"}
    ELSE {"inferenceTimeMs"}

\* C29 (the metrics update is a merge with a frame): when a modality call on a model
\* completes successfully, the record of that model has the measured fields
\* (inferenceTimeMs, and tokensPerSecond for generate and chat) overwritten and every
\* other field of its previous record preserved, a missing record counting as
\* {inferenceTimeMs: 0, memoryUsageMB: 0}; the records of all other models are
\* unchanged; a call that fails, before or after its closure was invoked, changes no
\* record.
MetricsMerge ==
    [][ /\ \A inferenceTime \in InferenceTimes :
               ClosureSettles("fulfilled", inferenceTime) =>
                   LET id == fcall.invoked
                       old == Existing(performanceMetrics, id)
                       new == performanceMetrics'[id]
                   IN  /\ DOMAIN performanceMetrics' = (DOMAIN performanceMetrics) \cup {id}
                       /\ DOMAIN new = (DOMAIN old) \cup MeasuredFields(fcall.op)
                       /\ new.inferenceTimeMs = inferenceTime
                       /\ fcall.op \in {"generate", "chat"} =>
                              new.tokensPerSecond = (TokenCount * 1000) \div inferenceTime
                       /\ \A f \in (DOMAIN old) \ MeasuredFields(fcall.op) : new[f] = old[f]
                       /\ \A j \in (DOMAIN performanceMetrics) \ {id} :
                              performanceMetrics'[j] = performanceMetrics[j]
        /\ \A inferenceTime \in InferenceTimes :
               ClosureSettles("rejected", inferenceTime) =>
                   performanceMetrics' = performanceMetrics
        /\ \A op \in Operations :
               (ModalityCall(op) /\ fcall'.result = "error") =>
                   performanceMetrics' = performanceMetrics ]_vars

\* a generate or chat call on model 1 has returned: the record of model 1 still has its
\* load time and memory usage, and the record of model 2 is as loadModel stored it
MetricsMergeWitness ==
    /\ fcall.result = "returned"
    /\ fcall.invoked = 1
    /\ DOMAIN performanceMetrics = {1, 2}
    /\ performanceMetrics[1] =
           [modelLoadTimeMs |-> 5, inferenceTimeMs |-> 2, memoryUsageMB |-> 4,
            tokensPerSecond |-> 1500]
    /\ performanceMetrics[2] =
           [modelLoadTimeMs |-> 5, inferenceTimeMs |-> 0, memoryUsageMB |-> 1]

\* C30 (loadModel is all-or-nothing): a loadModel call that fails (no model info, no
\* adapter, or the adapter's loadModel rejects) throws that error and leaves the loaded
\* models and the metrics map as they were; a call that succeeds returns a model that
\* is among the loaded models and has a metrics record with inferenceTimeMs 0.
LoadAllOrNothing ==
    [][ \A kind \in MetricKinds, loadTime \in LoadTimes :
            /\ \A outcome \in LoadOutcomes \ {"loaded"} :
                   IdgafLoadModel(kind, outcome, loadTime) =>
                       /\ lcall'.result = "thrown"
                       /\ lcall'.error = outcome
                       /\ loadedModels' = loadedModels
                       /\ performanceMetrics' = performanceMetrics
            /\ IdgafLoadModel(kind, "loaded", loadTime) =>
                   /\ lcall'.result = "returned"
                   /\ IsTracked(loadedModels', lcall'.id)
                   /\ lcall'.id \in DOMAIN performanceMetrics'
                   /\ performanceMetrics'[lcall'.id].inferenceTimeMs = 0 ]_vars

\* a loadModel call has failed in the adapter while another model is loaded and has
\* been used
LoadAllOrNothingWitness ==
    /\ lcall.result = "thrown"
    /\ lcall.error = "adapter_rejected"
    /\ Len(loadedModels) = 1
    /\ DOMAIN performanceMetrics = {1}
    /\ performanceMetrics[1].inferenceTimeMs = 2

(***************************************************************************)
(* Properties of LRUCache under failing unloads and overlapping calls      *)
(***************************************************************************)
\* the key whose entry the suspended call f is having unloaded
UnloadingKey(f) == IF f.pc = "replace" THEN f.key ELSE f.victim

\* the position of key k in the access order
RecencyOf(k) == CHOOSE i \in 1..Len(recency) : recency[i].key = k

\* C31 (a failing unload leaves the cache consistent): when the adapter's unload
\* rejects during delete, during an eviction inside set or while set replaces a key,
\* the call throws that error, the entry is still present and currentSize counts its
\* size again; and whenever no call is in flight currentSize is neither below the sum
\* of the sizes of the entries present nor below zero.
FailedUnloadConsistent ==
    /\ [][\A t \in 1..MaxTasks :
            ConcUnloadRejects(t) =>
                /\ concRet'.tag = "unload_rejected"
                /\ MapHas(concCache', UnloadingKey(tasks[t]))
                /\ concSize' = concSize + MapGet(concCache, UnloadingKey(tasks[t])).size]_vars
    /\ [](tasks = <<>> => (concSize >= SumSizes(concCache) /\ concSize >= 0))

\* C33 (the cache never serves a model it has unloaded): with a caller that awaits
\* every call and never stores a model the cache has unloaded, the model a get
\* returns is one for which the cache has not invoked the adapter's unloadModel.
ServedModelsAreLoaded ==
    [][\A k \in ConcKeys :
          (ConcGet(k, "sequential") /\ concRet'.tag = "model") =>
              unloadLog[concRet'.model] = 0]_vars

\* C34 (eviction follows true recency), as stated: the entry evictLRU picks is the
\* one accessed least recently, by insertion, by overwrite or by get, of all entries
\* present, also when lastAccessed values are equal.
EvictionFollowsRecency ==
    \A t \in 1..Len(tasks) :
        tasks[t].pc = "evict" => recency[1].key = tasks[t].victim

\* C34 (eviction follows true recency), amended: the entry evictLRU picks has the
\* smallest lastAccessed of all entries present; if an entry that stays was accessed
\* less recently than the one picked, the two have equal lastAccessed and the most
\* recent access of the one picked was an overwrite by set, which leaves the entry at
\* its place in the Map.
EvictionFollowsTimestamps ==
    \A t \in 1..Len(tasks) :
        tasks[t].pc = "evict" =>
            LET v == tasks[t].victim IN
            /\ MapHas(concCache, v)
            /\ \A j \in 1..Len(concCache) :
                  LET e == concCache[j] IN
                  /\ MapGet(concCache, v).lastAccessed <= e.lastAccessed
                  /\ RecencyOf(e.key) < RecencyOf(v) =>
                        /\ MapGet(concCache, v).lastAccessed = e.lastAccessed
                        /\ recency[RecencyOf(v)].by = "overwrite"

\* set is evicting A, which was overwritten in the same clock tick in which B was
\* inserted before it: B, accessed less recently, stays
EvictionFollowsTimestampsWitness ==
    /\ Len(tasks) = 1
    /\ tasks[1].pc = "evict"
    /\ tasks[1].victim = "A"
    /\ Len(recency) = 2
    /\ recency[1] = [key |-> "B", by |-> "insert"]
    /\ recency[2] = [key |-> "A", by |-> "overwrite"]

\* C35 (overlapping cache calls stay consistent): with calls started while others are
\* suspended at the adapter's unload, and every model stored once, the adapter's
\* unloadModel is invoked at most once for each model, currentSize is never negative,
\* and when no call is in flight currentSize is the sum of the sizes of the entries
\* present.
OverlapConsistent ==
    /\ \A m \in ConcModels : unloadLog[m] <= 1
    /\ concSize >= 0
    /\ tasks = <<>> => concSize = SumSizes(concCache)

\* C36 (metrics are kept only for loaded models): whenever no modality call is in
\* flight, every key of the performance-metrics map is the id of a loaded model.
MetricsOnlyForLoaded ==
    fcall.result # "invoked" =>
        \A id \in DOMAIN performanceMetrics : IsTracked(loadedModels, id)

====
